---- MODULE Spec2Model ----
(***************************************************************************)
(* A model of the OCR core of incr (crates/incr-core/src/ocr): the         *)
(* reading-order sort of OcrResult, the DB post-processing of TextDetector *)
(* (binarize, 4-connected flood fill, box + unclip + rescale + clip), the  *)
(* greedy CTC decoder of TextRecognizer, the per-type NMS of               *)
(* LayoutDetector and the orchestration in OcrEngine::process.             *)
(*                                                                         *)
(* Numbers.  The f32 coordinates, detection scores and recognition         *)
(* confidences are f32 values <<m, k>> = m / 2^k; sums and quotients are   *)
(* rounded as f32 rounds them.                                             *)
(* Inputs are given in whole units: corners in quarter pixels (CoordUnit), *)
(* probabilities and thresholds in percent, standing for the f32 nearest   *)
(* to them.  Strings are sequences of one-character strings.               *)
(***************************************************************************)
EXTENDS Integers, Sequences, FiniteSets, TLC

VARIABLES
    \* ---- OcrEngine::process and the OcrResult it returns (Spec)
    engine,          \* the built OcrEngine: which components it holds, its OcrConfig
    image,           \* the image given to process: [width, height]
    pc,              \* position inside process
    detection_result,\* the DetectionResult of step 1
    region,          \* index of the region the loop of step 2 is at
    cropped,         \* the region being processed: [angle, rotated]
    text_boxes,      \* the TextBoxes kept so far by step 2
    layout,          \* the Option<LayoutInfo> of step 3
    calls,           \* the backend invocations made so far, in order
    result,          \* the OcrResult (returned by process or built by the caller)
    error,           \* the OcrError returned by process
    sorts,           \* how many times sort_by_reading_order ran on result
    rec_scores,      \* the rec_score of every region step 2 has finished
    trace,           \* what the backends have answered in this call of process
    first,           \* Some(the answers and the outcome of an earlier call of
                     \* process on the same engine and image), or None
    \* ---- TextDetector::post_process (DetSpec)
    det,             \* the detector call: its input and its output
    \* ---- TextRecognizer::decode_output (CtcSpec)
    rec,             \* the recognizer call: logits in, RecognitionResult out
    \* ---- LayoutDetector::nms (NmsSpec)
    nms,             \* the nms call: candidates in, kept regions out
    \* ---- TableRecognizer::parse_structure_tokens (TableSpec)
    tab,             \* the table call: output tensors in, cells out
    \* ---- ImagePreprocessor's pure functions (PrepSpec)
    prep             \* the preprocessor call: image size and quad in,
                     \* crop rectangle or resize dimensions out

vars == <<engine, image, pc, detection_result, region, cropped, text_boxes,
          layout, calls, result, error, sorts, rec_scores, trace, first,
          det, rec, nms, tab, prep>>

engineVars == <<engine, image, pc, detection_result, region, cropped,
                text_boxes, layout, calls, result, error, sorts,
                rec_scores, trace, first>>

\* An absent error.  An Option<T> is <<>> (None) or <<x>> (Some(x)).
None == "None"

\* ------------------------------------------------------------------------
\* Numbers
\* ------------------------------------------------------------------------

\* Coordinates are counted in 1/CoordUnit pixel.
CoordUnit == 4

Min(a, b) == IF a <= b THEN a ELSE b
Max(a, b) == IF a >= b THEN a ELSE b

\* f32::clamp
Clamp(v, lo, hi) == IF v < lo THEN lo ELSE IF v > hi THEN hi ELSE v

SetMin(S) == CHOOSE m \in S : \A n \in S : m <= n
SetMax(S) == CHOOSE m \in S : \A n \in S : m >= n

\* Fractions <<numerator, denominator>>, denominator > 0.
FracLt(a, b) == a[1] * b[2] < b[1] * a[2]

\* ---- f32

\* 2^n, from a table of the powers that fit an i32.
RECURSIVE Doubled(_)
Doubled(n) == IF n <= 0 THEN 1 ELSE 2 * Doubled(n - 1)
Pow2Table == [n \in 0..30 |-> Doubled(n)]
Pow2(n) == IF n <= 0 THEN 1 ELSE Pow2Table[n]

\* The significand of an f32 has 24 bits.
F32Bits == 24

\* An f32 is <<m, k>>: the value m / 2^k with k >= 0, in lowest terms (m is
\* odd or k = 0), so that equal values are equal pairs.  The values that
\* occur are 0 or of magnitude between 2^-6 and 2^24, far from overflow and
\* underflow.
RECURSIVE F32(_, _)
F32(m, k) ==
    IF k = 0 \/ m % 2 = 1 THEN <<m, k>>
    ELSE IF m = 0 THEN <<0, 0>>
    ELSE IF k >= 8 /\ m % 256 = 0 THEN F32(m \div 256, k - 8)
    ELSE F32(m \div 2, k - 1)

\* `n as f32` of an integer below 2^24.
F32OfInt(n) == <<n, 0>>

\* The f32 of c quarters.
F32OfQuarters(c) == F32(c, 2)

\* The whole part (rounded down) of an f32 and the rest in 1 / 2^k.
F32Floor(a) == a[1] \div Pow2(a[2])
F32Frac(a) == a[1] % Pow2(a[2])

\* a < b
F32Lt(a, b) ==
    IF a[2] = b[2] THEN a[1] < b[1]
    ELSE LET k  == Max(a[2], b[2])
             fa == F32Floor(a)
             fb == F32Floor(b)
         IN  IF fa # fb THEN fa < fb
             ELSE F32Frac(a) * Pow2(k - a[2]) < F32Frac(b) * Pow2(k - b[2])

F32Le(a, b) == ~ F32Lt(b, a)

\* f32::min, f32::max, f32::clamp
F32Min(a, b) == IF F32Lt(b, a) THEN b ELSE a
F32Max(a, b) == IF F32Lt(a, b) THEN b ELSE a
F32Clamp(v, lo, hi) == IF F32Lt(v, lo) THEN lo ELSE IF F32Lt(hi, v) THEN hi ELSE v

\* `v.iter().cloned().fold(f32::INFINITY, f32::min)` and the same with
\* max, of four values.
FoldMin(v) == F32Min(F32Min(F32Min(v[1], v[2]), v[3]), v[4])
FoldMax(v) == F32Max(F32Max(F32Max(v[1], v[2]), v[3]), v[4])

\* `x as i32`: truncation toward zero.
F32Trunc(a) ==
    IF a[1] >= 0 THEN a[1] \div Pow2(a[2]) ELSE -((-a[1]) \div Pow2(a[2]))

\* The number of bits of n >= 0.
RECURSIVE BitLen(_)
BitLen(n) ==
    IF n = 0 THEN 0
    ELSE IF n >= 65536 THEN 16 + BitLen(n \div 65536)
    ELSE IF n >= 256 THEN 8 + BitLen(n \div 256)
    ELSE IF n >= 16 THEN 4 + BitLen(n \div 16)
    ELSE IF n >= 4 THEN 2 + BitLen(n \div 4)
    ELSE IF n >= 2 THEN 2 ELSE 1

\* whole + frac / 2^k, whole below 2^24 and frac below 2^k, rounded to 24
\* significant bits, ties to even.
RoundTo(whole, frac, k, s) ==
    LET q == whole * Pow2(k - s) + frac \div Pow2(s)
        r == frac % Pow2(s)
    IN  F32(IF 2 * r > Pow2(s) \/ (2 * r = Pow2(s) /\ q % 2 = 1)
            THEN q + 1 ELSE q, k - s)

F32Round(whole, frac, k) ==
    RoundTo(whole, frac, k,
            Max((IF whole > 0 THEN BitLen(whole) + k ELSE BitLen(frac))
                - F32Bits, 0))

\* a + b rounded to f32, a and b not negative.
AddParts(whole, frac, k) ==
    F32Round(whole + frac \div Pow2(k), frac % Pow2(k), k)

F32Add(a, b) ==
    LET k == Max(a[2], b[2])
    IN  AddParts(F32Floor(a) + F32Floor(b),
                 F32Frac(a) * Pow2(k - a[2]) + F32Frac(b) * Pow2(k - b[2]),
                 k)

\* The long division n / d carried on until the quotient has 24 bits:
\* <<quotient, remainder, binary places>>; j binary places are made at a
\* time, as many as keep r * 2^j in an i32 and the quotient in 24 bits.
RECURSIVE QuotBits(_, _, _, _, _)
QuotBits(q, r, d, k, room) ==
    IF q >= Pow2(F32Bits - 1) THEN <<q, r, k>>
    ELSE LET j == Min(room, F32Bits - BitLen(q))
             n == r * Pow2(j)
         IN  QuotBits(q * Pow2(j) + n \div d, n % d, d, k + j, room)

\* n / d rounded to f32, for integers 0 <= n below 2^24 and 0 < d below
\* 2^30.
RoundQuot(t, d) ==
    F32(IF 2 * t[2] > d \/ (2 * t[2] = d /\ t[1] % 2 = 1)
        THEN t[1] + 1 ELSE t[1], t[3])

F32Quot(n, d) ==
    IF n = 0 THEN <<0, 0>>
    ELSE RoundQuot(QuotBits(n \div d, n % d, d, 0, 30 - BitLen(d)), d)

\* a / b rounded to f32, 0 < b.
Shifted(m, k) == IF k >= 0 THEN F32(m, k) ELSE F32(m * Pow2(-k), 0)

SignedQuot(q, a, b) ==
    Shifted(IF a[1] >= 0 THEN q[1] ELSE -q[1], q[2] + a[2] - b[2])

F32Div(a, b) ==
    SignedQuot(F32Quot(IF a[1] >= 0 THEN a[1] ELSE -a[1], b[1]), a, b)

\* ------------------------------------------------------------------------
\* TextBox and OcrResult (ocr/mod.rs)
\* ------------------------------------------------------------------------

\* A String is a sequence of characters; "\n" is the line break.
NL == "\n"

\* TextBox::rect: the axis-aligned rectangle <<min_x, min_y, max_x, max_y>>
\* of the quadrilateral bbox = <<x1, y1, x2, y2, x3, y3, x4, y4>>.
Rect(b) ==
    LET xs == <<b.bbox[1], b.bbox[3], b.bbox[5], b.bbox[7]>>
        ys == <<b.bbox[2], b.bbox[4], b.bbox[6], b.bbox[8]>>
    IN  <<FoldMin(xs), FoldMin(ys), FoldMax(xs), FoldMax(ys)>>

\* The height in pixels of a reading-order band.
BandHeight == 20

\* row_a = (ay / 20.0) as i32
RowOf(b) == F32Trunc(F32Div(Rect(b)[2], F32OfInt(BandHeight)))

\* if row_a != row_b { row_a.cmp(&row_b) } else { ax.partial_cmp(&bx) }, as
\* "Less".
RowThenX(row_a, row_b, ax, bx) ==
    IF row_a # row_b THEN row_a < row_b ELSE F32Lt(ax, bx)

\* A comparator that orders a band right-to-left.
ReadingLessFlipped(a, b) ==
    RowThenX(RowOf(a), RowOf(b), Rect(b)[1], Rect(a)[1])

\* A comparator under which boxes with equal keys sort before each other.
ReadingLessOrEqual(a, b) ==
    RowThenX(RowOf(a), RowOf(b), Rect(a)[1], Rect(b)[1])
    \/ (RowOf(a) = RowOf(b) /\ Rect(a)[1] = Rect(b)[1])

\* The closure given to sort_by, as "a sorts strictly before b": rows
\* first, then the leftmost x.
ReadingLess(a, b) == RowThenX(RowOf(a), RowOf(b), Rect(a)[1], Rect(b)[1])

\* slice::sort_by is a stable sort; on a short slice it is an insertion
\* sort: each element moves left past the elements it sorts strictly before.
RECURSIVE InsertTail(_, _)
InsertTail(s, x) ==
    IF s = <<>> THEN <<x>>
    ELSE IF ReadingLess(x, s[Len(s)])
         THEN Append(InsertTail(SubSeq(s, 1, Len(s) - 1), x), s[Len(s)])
         ELSE Append(s, x)

RECURSIVE SortBoxes(_)
SortBoxes(s) ==
    IF s = <<>> THEN <<>>
    ELSE InsertTail(SortBoxes(SubSeq(s, 1, Len(s) - 1)), s[Len(s)])

\* Vec<&str>::join("\n")
RECURSIVE JoinLines(_)
JoinLines(texts) ==
    IF texts = <<>> THEN <<>>
    ELSE IF Len(texts) = 1 THEN texts[1]
    ELSE texts[1] \o <<NL>> \o JoinLines(Tail(texts))

\* A sort that reorders the boxes and leaves the text as it was.
SortOnlyBoxes(r) == [r EXCEPT !.boxes = SortBoxes(r.boxes)]

\* OcrResult::sort_by_reading_order
WithSorted(r, sorted) ==
    [r EXCEPT !.boxes = sorted,
              !.text = JoinLines([i \in 1..Len(sorted) |-> sorted[i].text])]

SortByReadingOrder(r) == WithSorted(r, SortBoxes(r.boxes))

\* OcrResult::empty
EmptyResult(w, h) ==
    [boxes |-> <<>>, text |-> <<>>, processing_time_ms |-> 0,
     image_size |-> <<w, h>>, layout |-> <<>>]

\* ------------------------------------------------------------------------
\* TextDetector (ocr/detector.rs)
\* ------------------------------------------------------------------------

\* A probability map [1, 1, height, width] is given by its size, a
\* background probability and a list of painted rectangles
\* [x0, y0, x1, y1, p] (corners inclusive, later ones on top); values are
\* probabilities in percent.
ProbAt(m, x, y) ==
    LET hits == {i \in 1..Len(m.rects) :
                    /\ m.rects[i].x0 <= x /\ x <= m.rects[i].x1
                    /\ m.rects[i].y0 <= y /\ y <= m.rects[i].y1}
    IN  IF hits = {} THEN m.bg ELSE m.rects[SetMax(hits)].p

\* binary[y][x] = prob > self.threshold, as the set of pixels set to true.
Binarize(m, threshold) ==
    {p \in (0..(m.width - 1)) \X (0..(m.height - 1)) :
        ProbAt(m, p[1], p[2]) > threshold}

\* Neighbours that include the pixel down and to the right.
NeighboursWithDiagonal(x, y, width, height) ==
    (IF x > 0 THEN <<(<<x - 1, y>>)>> ELSE <<>>)
    \o (IF x + 1 < width THEN <<(<<x + 1, y>>)>> ELSE <<>>)
    \o (IF y > 0 THEN <<(<<x, y - 1>>)>> ELSE <<>>)
    \o (IF y + 1 < height THEN <<(<<x, y + 1>>)>> ELSE <<>>)
    \o (IF x + 1 < width /\ y + 1 < height
        THEN <<(<<x + 1, y + 1>>)>> ELSE <<>>)

\* The neighbours flood_fill pushes, in its order: left, right, up, down.
Neighbours(x, y, width, height) ==
    (IF x > 0 THEN <<(<<x - 1, y>>)>> ELSE <<>>)
    \o (IF x + 1 < width THEN <<(<<x + 1, y>>)>> ELSE <<>>)
    \o (IF y > 0 THEN <<(<<x, y - 1>>)>> ELSE <<>>)
    \o (IF y + 1 < height THEN <<(<<x, y + 1>>)>> ELSE <<>>)

\* One turn of flood_fill's `while let Some((x, y)) = stack.pop()`; with the
\* stack empty the loop has ended and nothing changes.
FillStep(st, binary, width, height) ==
    IF st.stack = <<>> THEN st
    ELSE LET p    == st.stack[Len(st.stack)]
             rest == SubSeq(st.stack, 1, Len(st.stack) - 1)
         IN  IF \/ p[1] >= width \/ p[2] >= height
                \/ p \in st.visited \/ p \notin binary
             THEN [st EXCEPT !.stack = rest]
             ELSE [stack   |-> rest \o Neighbours(p[1], p[2], width, height),
                   visited |-> st.visited \cup {p},
                   contour |-> Append(st.contour, p)]

\* n turns of the loop (by halving, to keep the evaluation shallow).
RECURSIVE FillLoop(_, _, _, _, _)
FillLoop(n, st, binary, width, height) ==
    IF n <= 0 \/ st.stack = <<>> THEN st
    ELSE IF n = 1 THEN FillStep(st, binary, width, height)
    ELSE LET half == FillLoop(n \div 2, st, binary, width, height)
         IN  FillLoop(n - (n \div 2), half, binary, width, height)

\* flood_fill: the loop runs until the stack is empty; every pixel is
\* pushed at most once per visited neighbour, so 4 * pixels + 1 turns end it.
FloodFill(binary, visited, start_x, start_y, width, height) ==
    FillLoop(4 * Cardinality(binary \ visited) + 1,
             [stack |-> <<(<<start_x, start_y>>)>>,
              visited |-> visited, contour |-> <<>>],
             binary, width, height)

\* Components smaller than this are dropped by find_contours.
MinComponent == 10

\* if contour.len() >= 10 { contours.push(contour) }
KeepsComponent(contour) == Len(contour) >= MinComponent

\* The body of find_contours' scan loops at pixel k = y * width + x.
ScanStep(k, st, binary, width, height) ==
    LET x == k % width
        y == k \div width
    IN  IF <<x, y>> \in binary /\ <<x, y>> \notin st.visited
        THEN LET f == FloodFill(binary, st.visited, x, y, width, height)
             IN  [visited  |-> f.visited,
                  contours |-> IF KeepsComponent(f.contour)
                               THEN Append(st.contours, f.contour)
                               ELSE st.contours,
                  all      |-> Append(st.all, f.contour)]
        ELSE st

RECURSIVE ScanLoop(_, _, _, _, _, _)
ScanLoop(lo, hi, st, binary, width, height) ==
    IF lo > hi THEN st
    ELSE IF lo = hi THEN ScanStep(lo, st, binary, width, height)
    ELSE LET mid  == (lo + hi) \div 2
             left == ScanLoop(lo, mid, st, binary, width, height)
         IN  \* (the test only makes the first half be evaluated first)
             IF Len(left.all) >= 0
             THEN ScanLoop(mid + 1, hi, left, binary, width, height)
             ELSE left

\* find_contours: row-major scan, one flood fill per unvisited mask pixel.
\* .contours is what it returns; .all also lists the components the size
\* filter dropped.
FindContours(binary, width, height) ==
    ScanLoop(0, width * height - 1,
             [visited |-> {}, contours |-> <<>>, all |-> <<>>],
             binary, width, height)

\* The map's value of p percent: the f32 nearest to p / 100.
PercentTable == [p \in 0..100 |-> F32Quot(p, 100)]
ProbF32(p) == PercentTable[p]

\* `score_sum += prob_map[y][x]` over contour[lo..hi] in the contour's
\* order, from score_sum = acc on (by halving, to keep the evaluation
\* shallow).
RECURSIVE SumProb(_, _, _, _, _)
\* (the test only makes the first half be evaluated first)
SumRest(m, contour, lo, hi, left) ==
    IF left[2] >= 0 THEN SumProb(m, contour, lo, hi, left) ELSE left

SumProb(m, contour, lo, hi, acc) ==
    IF lo > hi THEN acc
    ELSE IF lo = hi
    THEN F32Add(acc, ProbF32(ProbAt(m, contour[lo][1], contour[lo][2])))
    ELSE SumRest(m, contour, (lo + hi) \div 2 + 1, hi,
                 SumProb(m, contour, lo, (lo + hi) \div 2, acc))

\* avg_score = score_sum / contour.len() as f32
AvgScore(m, contour) ==
    F32Div(SumProb(m, contour, 1, Len(contour), F32OfInt(0)),
           F32OfInt(Len(contour)))

\* The quad through (x1, y1) and (x2, y2) given in quarter pixels.
QuadOfQuarters(x1, y1, x2, y2) ==
    <<F32OfQuarters(x1), F32OfQuarters(y1), F32OfQuarters(x2),
      F32OfQuarters(y1), F32OfQuarters(x2), F32OfQuarters(y2),
      F32OfQuarters(x1), F32OfQuarters(y2)>>

\* An unclip that grows the box only to the right and downwards.
GetBoxOneSided(contour, m, unclip2) ==
    LET xs == {contour[i][1] : i \in 1..Len(contour)}
        ys == {contour[i][2] : i \in 1..Len(contour)}
        ex == (SetMax(xs) - SetMin(xs)) * (unclip2 - 2)
        ey == (SetMax(ys) - SetMin(ys)) * (unclip2 - 2)
        x1 == SetMin(xs) * CoordUnit
        y1 == SetMin(ys) * CoordUnit
        x2 == SetMax(xs) * CoordUnit + 2 * ex
        y2 == SetMax(ys) * CoordUnit + 2 * ey
    IN  [bbox  |-> QuadOfQuarters(x1, y1, x2, y2),
         score |-> AvgScore(m, contour)]

\* get_box_from_contour.  unclip2 is twice the unclip ratio, so that
\* w * (unclip_ratio - 1.0) / 2.0 pixels are w * (unclip2 - 2) quarter
\* pixels; with the ratio a multiple of 1/2 the f32 operations on the
\* corners are exact.
GetBoxFromContour(contour, m, unclip2) ==
    LET xs == {contour[i][1] : i \in 1..Len(contour)}
        ys == {contour[i][2] : i \in 1..Len(contour)}
        min_x == SetMin(xs)
        max_x == SetMax(xs)
        min_y == SetMin(ys)
        max_y == SetMax(ys)
        expand_x == (max_x - min_x) * (unclip2 - 2)
        expand_y == (max_y - min_y) * (unclip2 - 2)
        x1 == Max(min_x * CoordUnit - expand_x, 0)
        y1 == Max(min_y * CoordUnit - expand_y, 0)
        x2 == max_x * CoordUnit + expand_x
        y2 == max_y * CoordUnit + expand_y
    IN  [bbox  |-> QuadOfQuarters(x1, y1, x2, y2),
         score |-> AvgScore(m, contour)]

\* `new as f32 / orig as f32`: a scale factor.
Ratio(new, orig) == F32Div(F32OfInt(new), F32OfInt(orig))

\* bbox[i] / scale
Unscale(c, scale) == F32Div(c, scale)

\* A clip that bounds the coordinates from below only.
ClipBboxLowOnly(bbox, width, height) ==
    <<F32Max(bbox[1], F32OfInt(0)), F32Max(bbox[2], F32OfInt(0)),
      F32Max(bbox[3], F32OfInt(0)), F32Max(bbox[4], F32OfInt(0)),
      F32Max(bbox[5], F32OfInt(0)), F32Max(bbox[6], F32OfInt(0)),
      F32Max(bbox[7], F32OfInt(0)), F32Max(bbox[8], F32OfInt(0))>>

\* clip_bbox: x into [0, width], y into [0, height].
ClipBbox(bbox, width, height) ==
    <<F32Clamp(bbox[1], F32OfInt(0), F32OfInt(width)),
      F32Clamp(bbox[2], F32OfInt(0), F32OfInt(height)),
      F32Clamp(bbox[3], F32OfInt(0), F32OfInt(width)),
      F32Clamp(bbox[4], F32OfInt(0), F32OfInt(height)),
      F32Clamp(bbox[5], F32OfInt(0), F32OfInt(width)),
      F32Clamp(bbox[6], F32OfInt(0), F32OfInt(height)),
      F32Clamp(bbox[7], F32OfInt(0), F32OfInt(width)),
      F32Clamp(bbox[8], F32OfInt(0), F32OfInt(height))>>

\* `if score < self.box_threshold { continue; }`; the thresholds of a
\* detector d are in percent, the f32 nearest to it is compared.
PassesBoxThreshold(score, d) == ~ F32Lt(score, ProbF32(d.box_threshold))

\* bbox[i] / scale_x for the x and bbox[i] / scale_y for the y.
Rescale(bbox, scale_x, scale_y) ==
    <<Unscale(bbox[1], scale_x), Unscale(bbox[2], scale_y),
      Unscale(bbox[3], scale_x), Unscale(bbox[4], scale_y),
      Unscale(bbox[5], scale_x), Unscale(bbox[6], scale_y),
      Unscale(bbox[7], scale_x), Unscale(bbox[8], scale_y)>>

\* One turn of post_process' loop, for the box b of a contour: score
\* filter, rescale, clip, push.
PushBox(before, contour, b, d, scale_x, scale_y, orig_size) ==
    IF Len(contour) < 4 \/ ~ PassesBoxThreshold(b.score, d)
    THEN before
    ELSE [boxes  |-> Append(before.boxes,
                            ClipBbox(Rescale(b.bbox, scale_x, scale_y),
                                     orig_size[1], orig_size[2])),
          scores |-> Append(before.scores, b.score),
          from   |-> Append(before.from, contour)]

\* The loop of post_process over the contours.  Returns the
\* DetectionResult's boxes and scores and, for each box, the contour it
\* came from.
RECURSIVE BoxesOf(_, _, _, _, _, _)
BoxesOf(contours, m, d, scale_x, scale_y, orig_size) ==
    IF contours = <<>> THEN [boxes |-> <<>>, scores |-> <<>>, from |-> <<>>]
    ELSE PushBox(BoxesOf(SubSeq(contours, 1, Len(contours) - 1),
                         m, d, scale_x, scale_y, orig_size),
                 contours[Len(contours)],
                 GetBoxFromContour(contours[Len(contours)], m, d.unclip2),
                 d, scale_x, scale_y, orig_size)

\* post_process on a probability map.  .components lists every component
\* the flood fill found, before the size filter.
WithComponents(out, all) ==
    [boxes |-> out.boxes, scores |-> out.scores, from |-> out.from,
     components |-> all]

BoxesFound(found, m, d, scale_x, scale_y, orig_size) ==
    WithComponents(BoxesOf(found.contours, m, d, scale_x, scale_y, orig_size),
                   found.all)

PostProcess(m, d, scale_x, scale_y, orig_size) ==
    BoxesFound(FindContours(Binarize(m, d.threshold), m.width, m.height),
               m, d, scale_x, scale_y, orig_size)

\* TextDetector::new
DefaultThreshold == 30
DefaultBoxThreshold == 60
DefaultUnclip2 == 3
NewDetector ==
    [threshold |-> DefaultThreshold, box_threshold |-> DefaultBoxThreshold,
     unclip2 |-> DefaultUnclip2]

\* ---- the detector's inputs

\* Small probability maps are MapWidth x MapHeight.
MapWidth == 5
MapHeight == 3

\* The second rectangle painted on a small map is one pixel or a square
\* of MaxPatch x MaxPatch pixels.
MaxPatch == 2

\* Probabilities painted on a map (percent): between the two thresholds,
\* and above both.
Probs == {40, 90}

\* The rectangles of a width x height map.
RectsIn(width, height, ps) ==
    {r \in [x0 : 0..(width - 1), y0 : 0..(height - 1),
            x1 : 0..(width - 1), y1 : 0..(height - 1), p : ps] :
        r.x0 <= r.x1 /\ r.y0 <= r.y1}

\* Its squares of side 1 and MaxPatch, of high probability.
PatchesIn(width, height) ==
    {r \in RectsIn(width, height, {90}) :
        /\ r.x1 - r.x0 = r.y1 - r.y0
        /\ r.x1 - r.x0 + 1 \in {1, MaxPatch}}

\* Small maps: background 0, at most one rectangle of any size, and at
\* most one patch painted over it.
SmallMaps ==
    {[width |-> MapWidth, height |-> MapHeight, bg |-> 0, rects |-> rs] :
        rs \in {<<>>}
               \cup {<<r>> : r \in RectsIn(MapWidth, MapHeight, Probs)}
               \cup {<<r1, r2>> :
                        r1 \in RectsIn(MapWidth, MapHeight, Probs),
                        r2 \in PatchesIn(MapWidth, MapHeight)}}

\* The scenario map: 100 x 50, one high-probability rectangle with corners
\* (10,10) and (40,20), its extent 30 x 10.
ScenarioMap ==
    [width |-> 100, height |-> 50, bg |-> 5,
     rects |-> <<[x0 |-> 10, y0 |-> 10, x1 |-> 40, y1 |-> 20, p |-> 90]>>]

Float32Map(m) == [dtype |-> "Float32", rank |-> 4, map |-> m]

DetCall(t, d, sx, sy, size) ==
    [phase |-> "call", tensor |-> t, d |-> d, scale_x |-> sx, scale_y |-> sy,
     orig_size |-> size, boxes |-> <<>>, scores |-> <<>>, from |-> <<>>,
     components |-> <<>>, error |-> None]

\* The scale factors of the calls: 1, 1/2, and 2/3, which no f32 is equal
\* to.
UnitScale == Ratio(1, 1)
DetScales == {UnitScale, Ratio(1, 2), Ratio(2, 3)}

\* Maps of one rectangle whose probability is the default box_threshold.
ThresholdMaps ==
    {[width |-> MapWidth, height |-> MapHeight, bg |-> 0, rects |-> <<r>>] :
        r \in RectsIn(MapWidth, MapHeight, {DefaultBoxThreshold})}

\* The calls of the detector that are checked: every small map and every
\* threshold map under the default detector at unit scale; one-rectangle
\* maps under both unclip ratios, every scale and image sizes smaller and
\* larger than the map; the scenario under both unclip ratios; outputs of
\* the wrong type or rank.
DetCalls ==
    {DetCall(Float32Map(m), NewDetector, UnitScale, UnitScale,
             <<MapWidth, MapHeight>>) : m \in SmallMaps \cup ThresholdMaps}
    \cup {DetCall(Float32Map(m), [NewDetector EXCEPT !.unclip2 = u],
                  s, s, size) :
            m \in {n \in SmallMaps : Len(n.rects) = 1 /\ n.rects[1].p = 90},
            u \in {2, 3}, s \in DetScales,
            size \in {<<MapWidth - 1, MapHeight - 1>>,
                      <<2 * MapWidth, 2 * MapHeight>>}}
    \cup {DetCall(Float32Map(ScenarioMap), [NewDetector EXCEPT !.unclip2 = u],
                  UnitScale, UnitScale, <<100, 50>>) : u \in {2, 3}}
    \cup {DetCall([dtype |-> ty, rank |-> k, map |-> ScenarioMap],
                  NewDetector, UnitScale, UnitScale, <<100, 50>>) :
            ty \in {"Float32", "Int64"}, k \in {3, 4, 5}}

\* ---- TextDetector::detect, from the backend's output on

\* output[[0, 0, y, x]] is written for a tensor of 4 axes: with more, the
\* first pixel read finds the index out of bounds and panics.
IndexPanics(tensor) ==
    tensor.rank > 4 /\ tensor.map.width * tensor.map.height > 0

\* The output is a Float32 tensor of rank >= 4 that post_process can
\* index: post_process runs.
DetectOk ==
    /\ det.phase = "call"
    /\ det.tensor.dtype = "Float32" /\ det.tensor.rank >= 4
    /\ ~ IndexPanics(det.tensor)
    /\ \E out \in {PostProcess(det.tensor.map, det.d, det.scale_x,
                              det.scale_y, det.orig_size)} :
          det' = [det EXCEPT !.phase = "ok", !.boxes = out.boxes,
                             !.scores = out.scores, !.from = out.from,
                             !.components = out.components]
    /\ UNCHANGED <<engineVars, rec, nms, tab, prep>>

\* `_ => return Err(OcrError::Detection("Unexpected output type"))`
DetectBadType ==
    /\ det.phase = "call"
    /\ det.tensor.dtype # "Float32"
    /\ det' = [det EXCEPT !.phase = "err", !.error = "Detection"]
    /\ UNCHANGED <<engineVars, rec, nms, tab, prep>>

\* The output is a Float32 tensor of more than 4 axes: post_process
\* panics at `let prob = output[[0, 0, y, x]]`.
DetectPanics ==
    /\ det.phase = "call"
    /\ det.tensor.dtype = "Float32" /\ det.tensor.rank >= 4
    /\ IndexPanics(det.tensor)
    /\ det' = [det EXCEPT !.phase = "panic"]
    /\ UNCHANGED <<engineVars, rec, nms, tab, prep>>

\* `if shape.len() < 4 { return Err(OcrError::Detection(..)) }`
DetectBadShape ==
    /\ det.phase = "call"
    /\ det.tensor.dtype = "Float32" /\ det.tensor.rank < 4
    /\ det' = [det EXCEPT !.phase = "err", !.error = "Detection"]
    /\ UNCHANGED <<engineVars, rec, nms, tab, prep>>

\* The value of `engine` where no engine has been built.
NoEngine ==
    [detector |-> FALSE, classifier |-> FALSE, recognizer |-> FALSE,
     layout_detector |-> FALSE,
     config |-> [enable_detection |-> FALSE, enable_classification |-> FALSE,
                 enable_recognition |-> FALSE,
                 recognition_threshold |-> F32OfInt(0)]]

\* No engine is running: the state of the engine's variables while a
\* component is exercised on its own.
EngineIdle ==
    /\ engine = NoEngine
    /\ image = [width |-> 0, height |-> 0]
    /\ pc = "idle"
    /\ detection_result = [boxes |-> <<>>, scores |-> <<>>]
    /\ region = 0 /\ cropped = <<>>
    /\ text_boxes = <<>> /\ layout = <<>> /\ calls = <<>>
    /\ result = EmptyResult(0, 0) /\ error = None /\ sorts = 0
    /\ rec_scores = <<>>
    /\ trace = <<>> /\ first = <<>>

\* A component that is not being called.
Idle == [phase |-> "idle"]

DetInit ==
    /\ EngineIdle
    /\ det \in DetCalls
    /\ rec = Idle
    /\ nms = Idle
    /\ tab = Idle
    /\ prep = Idle

DetNext == DetectOk \/ DetectBadType \/ DetectBadShape \/ DetectPanics

DetSpec == DetInit /\ [][DetNext]_vars

\* ------------------------------------------------------------------------
\* TextRecognizer (ocr/recognizer.rs)
\* ------------------------------------------------------------------------

\* A logit k stands for k * ln 2, so that exp(a - b) is exactly 2^(a - b).
\* logits[t][c + 1] is output[[0, t - 1, c]]; class 0 is the CTC blank.

RECURSIVE SumOver(_, _)
SumOver(f, n) == IF n = 0 THEN 0 ELSE f[n] + SumOver(f, n - 1)

\* The argmax loop: `if val > max_val` keeps the first of equal maxima.
ArgMax(row) ==
    LET top == SetMax({row[i] : i \in 1..Len(row)})
    IN  SetMin({i \in 1..Len(row) : row[i] = top}) - 1

\* (output[[0, t, c]] - max_val).exp() for a logit d steps below max_val:
\* 2^(-d), an f32.
Exp(d) == F32(1, d)

\* `sum_exp += (output[[0, t, c]] - max_val).exp()` over the classes
\* 0..n-1 in order, each partial sum rounded to f32.
RECURSIVE SumExp(_, _, _)
SumExp(row, max_val, n) ==
    IF n = 0 THEN F32OfInt(0)
    ELSE F32Add(SumExp(row, max_val, n - 1), Exp(max_val - row[n]))

\* confidence = 1.0 / sum_exp, in f32.
Confidence(row) ==
    F32Div(F32OfInt(1),
           SumExp(row, SetMax({row[i] : i \in 1..Len(row)}), Len(row)))

\* `if max_idx != 0 && max_idx != prev_idx`
Emits(max_idx, prev_idx) == max_idx # 0 /\ max_idx # prev_idx

\* A decoder whose prev_idx skips blanks, so that a blank between two equal
\* classes no longer separates them.
PrevIdxSkippingBlanks(max_idx, prev_idx) ==
    IF max_idx = 0 THEN prev_idx ELSE max_idx

\* `prev_idx = max_idx;` at the end of every timestep.
NextPrevIdx(max_idx, prev_idx) == max_idx

\* The timestep loop of decode_output over logits[1..t]: the text, the
\* per-character confidences and prev_idx.
\* One timestep of decode_output after the state st of the earlier ones.
DecodeStep(st, row, max_idx, dictionary) ==
    \* self.dictionary.get(max_idx) is Some
    IF Emits(max_idx, st.prev_idx) /\ max_idx < Len(dictionary)
    THEN [text |-> Append(st.text, dictionary[max_idx + 1]),
          char_scores |-> Append(st.char_scores, Confidence(row)),
          prev_idx |-> NextPrevIdx(max_idx, st.prev_idx)]
    ELSE [text |-> st.text, char_scores |-> st.char_scores,
          prev_idx |-> NextPrevIdx(max_idx, st.prev_idx)]

RECURSIVE DecodeLoop(_, _, _)
DecodeLoop(logits, dictionary, t) ==
    IF t = 0
    THEN [text |-> <<>>, char_scores |-> <<>>, prev_idx |-> 0]
    ELSE DecodeStep(DecodeLoop(logits, dictionary, t - 1), logits[t],
                    ArgMax(logits[t]), dictionary)

\* char_scores.iter().sum::<f32>() over the first n scores: the f32 sum
\* from 0.0 in the order of the list, each partial sum rounded.
RECURSIVE SumF32(_, _)
SumF32(char_scores, n) ==
    IF n = 0 THEN F32OfInt(0)
    ELSE F32Add(SumF32(char_scores, n - 1), char_scores[n])

\* avg_confidence: 0.0 with nothing decoded, else the f32 sum divided by
\* `char_scores.len() as f32`.
AvgConfidence(char_scores) ==
    IF char_scores = <<>> THEN F32OfInt(0)
    ELSE F32Div(SumF32(char_scores, Len(char_scores)),
                F32OfInt(Len(char_scores)))

\* The RecognitionResult of the decoded state.
ResultOf(st) ==
    [text |-> st.text, confidence |-> AvgConfidence(st.char_scores),
     char_scores |-> st.char_scores]

\* decode_output on logits of shape [1, T, C].
DecodeOutput(logits, dictionary) ==
    ResultOf(DecodeLoop(logits, dictionary, Len(logits)))

\* ---- the recognizer's inputs

\* Logits have NumClasses classes and at most MaxSteps timesteps.
NumClasses == 6
MaxSteps == 4

Alphabet == <<" ", "a", "b", "c", "d", "e", "f", "g", "h">>

\* A dictionary holding every class, and one too short for class 5.
FullDictionary == SubSeq(Alphabet, 1, NumClasses)
ShortDictionary == SubSeq(Alphabet, 1, 5)

\* The rows of logits drawn: class a alone on top, or class a on top with
\* class b at the same height (a tie) or one step below.
PeakClasses == {0, 1, 5}
RowOf2(a, b, vb) ==
    [i \in 1..NumClasses |->
        IF i - 1 = a THEN 2 ELSE IF i - 1 = b THEN vb ELSE 0]
LogitRows ==
    {RowOf2(a, a, 2) : a \in PeakClasses}
    \cup {RowOf2(5, b, 2) : b \in {0, 1}}
    \cup {RowOf2(5, 1, 1)}

RecCalls ==
    {[phase |-> "call", rank |-> 3, logits |-> l, dictionary |-> d,
      text |-> <<>>, confidence |-> F32OfInt(0), char_scores |-> <<>>,
      error |-> None] :
        l \in UNION {[1..n -> LogitRows] : n \in 0..MaxSteps},
        d \in {FullDictionary, ShortDictionary}}
    \cup {[phase |-> "call", rank |-> 2, logits |-> <<>>,
           dictionary |-> FullDictionary, text |-> <<>>,
           confidence |-> F32OfInt(0), char_scores |-> <<>>, error |-> None]}
    \cup {[phase |-> "call", rank |-> 4, logits |-> l,
           dictionary |-> FullDictionary, text |-> <<>>,
           confidence |-> F32OfInt(0), char_scores |-> <<>>, error |-> None] :
             l \in {<<>>, <<RowOf2(5, 5, 2)>>}}

\* decode_output on a tensor of rank >= 3 that it can index:
\* output[[0, t, c]] is written for 3 axes and is read if there is a
\* timestep.
RecognizeOk ==
    /\ rec.phase = "call" /\ rec.rank >= 3
    /\ rec.rank = 3 \/ rec.logits = <<>>
    /\ \E out \in {DecodeOutput(rec.logits, rec.dictionary)} :
          rec' = [rec EXCEPT !.phase = "ok", !.text = out.text,
                             !.confidence = out.confidence,
                             !.char_scores = out.char_scores]
    /\ UNCHANGED <<engineVars, det, nms, tab, prep>>

\* decode_output on a tensor of more than 3 axes with a timestep: it
\* panics at `let val = output[[0, t, c]]`.
RecognizePanics ==
    /\ rec.phase = "call" /\ rec.rank > 3
    /\ rec.logits # <<>>
    /\ rec' = [rec EXCEPT !.phase = "panic"]
    /\ UNCHANGED <<engineVars, det, nms, tab, prep>>

\* `if shape.len() < 3 { return Err(OcrError::Recognition(..)) }`
RecognizeBadShape ==
    /\ rec.phase = "call" /\ rec.rank < 3
    /\ rec' = [rec EXCEPT !.phase = "err", !.error = "Recognition"]
    /\ UNCHANGED <<engineVars, det, nms, tab, prep>>

CtcInit ==
    /\ EngineIdle
    /\ det = Idle
    /\ rec \in RecCalls
    /\ nms = Idle
    /\ tab = Idle
    /\ prep = Idle

CtcNext == RecognizeOk \/ RecognizeBadShape \/ RecognizePanics

CtcSpec == CtcInit /\ [][CtcNext]_vars

\* ------------------------------------------------------------------------
\* LayoutDetector (ocr/layout.rs)
\* ------------------------------------------------------------------------

\* A LayoutRegion is [region_type, bbox = <<x1, y1, x2, y2>>, confidence];
\* coordinates in pixels, confidence in percent.

\* LayoutRegion::area
Area(r) == (r.bbox[3] - r.bbox[1]) * (r.bbox[4] - r.bbox[2])

\* LayoutRegion::iou, as the fraction <<intersection, union>> (0.0 is <<0, 1>>).
IoU(a, b) ==
    LET x1 == Max(a.bbox[1], b.bbox[1])
        y1 == Max(a.bbox[2], b.bbox[2])
        x2 == Min(a.bbox[3], b.bbox[3])
        y2 == Min(a.bbox[4], b.bbox[4])
        intersection == (x2 - x1) * (y2 - y1)
        union == Area(a) + Area(b) - intersection
    IN  IF x2 < x1 \/ y2 < y1 THEN <<0, 1>>
        ELSE IF union > 0 THEN <<intersection, union>>
        ELSE <<0, 1>>

\* LayoutDetector::new: nms_threshold 0.5, in percent.
NmsThreshold == 50

\* A test that lets a kept region of any type suppress.
DominatedAnyType(r, keep) ==
    \E i \in 1..Len(keep) : FracLt(<<NmsThreshold, 100>>, IoU(r, keep[i]))

\* A test that looks at the first kept region only.
DominatedByFirst(r, keep) ==
    /\ keep # <<>>
    /\ keep[1].region_type = r.region_type
    /\ FracLt(<<NmsThreshold, 100>>, IoU(r, keep[1]))

\* `keep.iter().any(|kept| kept.region_type == region.region_type
\*                         && region.iou(kept) > self.nms_threshold)`
Dominated(r, keep) ==
    \E i \in 1..Len(keep) :
        /\ keep[i].region_type = r.region_type
        /\ FracLt(<<NmsThreshold, 100>>, IoU(r, keep[i]))

\* regions.sort_by(|a, b| b.confidence.partial_cmp(&a.confidence)): a stable
\* sort by confidence, descending.
RECURSIVE InsertByConfidence(_, _)
InsertByConfidence(s, x) ==
    IF s = <<>> THEN <<x>>
    ELSE IF x.confidence > s[Len(s)].confidence
         THEN Append(InsertByConfidence(SubSeq(s, 1, Len(s) - 1), x), s[Len(s)])
         ELSE Append(s, x)

RECURSIVE SortByConfidence(_)
SortByConfidence(s) ==
    IF s = <<>> THEN <<>>
    ELSE InsertByConfidence(SortByConfidence(SubSeq(s, 1, Len(s) - 1)),
                            s[Len(s)])

\* `while let Some(region) = regions.pop()`: Vec::pop takes the LAST
\* element of the sorted list.
RECURSIVE NmsLoop(_, _)
NmsLoop(regions, keep) ==
    IF regions = <<>> THEN keep
    ELSE LET r    == regions[Len(regions)]
             rest == SubSeq(regions, 1, Len(regions) - 1)
         IN  NmsLoop(rest, IF Dominated(r, keep) THEN keep
                           ELSE Append(keep, r))

\* LayoutDetector::nms
Nms(regions) == NmsLoop(SortByConfidence(regions), <<>>)

\* LayoutDetector::new: confidence_threshold 0.5, in percent.
ConfidenceThreshold == 50

\* `x1.clamp(0.0, orig_width as f32)`, ..: the bbox of a region inside the
\* image.
ClampToImage(r, orig_width, orig_height) ==
    [r EXCEPT !.bbox = <<Clamp(r.bbox[1], 0, orig_width),
                         Clamp(r.bbox[2], 0, orig_height),
                         Clamp(r.bbox[3], 0, orig_width),
                         Clamp(r.bbox[4], 0, orig_height)>>]

\* LayoutDetector::post_process on the rows of the output tensor, a row
\* being [region_type of its class, bbox = its corners over the scale
\* factors, confidence = its score]: a row under the confidence threshold
\* is skipped, the others are clamped to the image and go through nms.
LayoutPostProcess(rows, orig_width, orig_height) ==
    LET passed == SelectSeq(rows,
                     LAMBDA r : ~ (r.confidence < ConfidenceThreshold))
    IN  Nms([i \in 1..Len(passed) |->
                ClampToImage(passed[i], orig_width, orig_height)])

\* ---- the candidates given to nms

\* At most MaxCandidates candidates.
MaxCandidates == 3

\* Boxes 10 x 10 in a row whose neighbours overlap with IoU 7/13 and whose
\* second neighbours overlap with IoU 1/4, one half-height box with IoU
\* exactly 1/2 with the first, and one box apart from all.
CandidateBoxes ==
    {<<0, 0, 10, 10>>, <<3, 0, 13, 10>>, <<6, 0, 16, 10>>,
     <<0, 0, 10, 5>>, <<30, 0, 40, 10>>}

Candidates ==
    [region_type : {"Text", "Table"}, bbox : CandidateBoxes,
     confidence : {60, 90}]

NmsCalls ==
    {[phase |-> "call", regions |-> rs, keep |-> <<>>] :
        rs \in UNION {[1..n -> Candidates] : n \in 0..MaxCandidates}}

NmsRun ==
    /\ nms.phase = "call"
    /\ nms' = [nms EXCEPT !.phase = "done", !.keep = Nms(nms.regions)]
    /\ UNCHANGED <<engineVars, det, rec, tab, prep>>

NmsInit ==
    /\ EngineIdle
    /\ det = Idle
    /\ rec = Idle
    /\ nms \in NmsCalls
    /\ tab = Idle
    /\ prep = Idle

NmsNext == NmsRun

NmsSpec == NmsInit /\ [][NmsNext]_vars

\* ------------------------------------------------------------------------
\* ImagePreprocessor (ocr/preprocessing.rs)
\* ------------------------------------------------------------------------

\* ImagePreprocessor::new: det_target_size
DetTargetSize == 960

\* n / 2^s rounded to the nearest integer, ties to the even one.
RoundHalfEven(n, s) ==
    LET d == Pow2(s)
        q == n \div d
        r == n % d
    IN  IF 2 * r > d \/ (2 * r = d /\ q % 2 = 1) THEN q + 1 ELSE q

\* The bits a product has beyond 24.
RECURSIVE MulShift(_, _)
MulShift(p, s) ==
    IF p \div Pow2(s) < Pow2(F32Bits) THEN s ELSE MulShift(p, s + 1)

\* `(w as f32 * scale) as u32`: the product rounded to f32, then
\* truncated.
F32MulAsU32(w, scale) ==
    LET p == w * scale[1]
        s == MulShift(p, 0)
        q == RoundHalfEven(p, s)
    IN  IF s >= scale[2] THEN q * Pow2(s - scale[2])
        ELSE q \div Pow2(scale[2] - s)

\* calculate_resize_dimensions
CalculateResizeDimensions(width, height, target_size) ==
    LET max_dim == Max(width, height)
        scale   == F32Div(F32OfInt(target_size), F32OfInt(max_dim))
    IN  IF max_dim <= target_size THEN <<width, height>>
        ELSE <<Max(F32MulAsU32(width, scale), 1),
               Max(F32MulAsU32(height, scale), 1)>>

\* preprocess_for_detection: the size of the padded tensor and the scale
\* factors new / orig.
PreprocessForDetection(img) ==
    LET new == CalculateResizeDimensions(img.width, img.height, DetTargetSize)
    IN  [pad_width  |-> ((new[1] + 31) \div 32) * 32,
         pad_height |-> ((new[2] + 31) \div 32) * 32,
         scale_x    |-> Ratio(new[1], img.width),
         scale_y    |-> Ratio(new[2], img.height)]

\* `c as u32` of a coordinate: truncated, and 0 for a negative one.
AsU32(c) == Max(F32Trunc(c), 0)

\* crop_text_region: the rectangle handed to crop_imm, in pixels.
\* width = max_x.saturating_sub(min_x).max(1), height likewise: the
\* rectangle handed to crop_imm.
CropRect(min_x, min_y, max_x, max_y) ==
    [x |-> min_x, y |-> min_y,
     width  |-> Max(Max(max_x - min_x, 0), 1),
     height |-> Max(Max(max_y - min_y, 0), 1)]

CropTextRegion(img, bbox) ==
    LET xs == <<bbox[1], bbox[3], bbox[5], bbox[7]>>
        ys == <<bbox[2], bbox[4], bbox[6], bbox[8]>>
    IN  CropRect(AsU32(F32Max(FoldMin(xs), F32OfInt(0))),
                 AsU32(F32Max(FoldMin(ys), F32OfInt(0))),
                 AsU32(F32Min(FoldMax(xs), F32OfInt(img.width))),
                 AsU32(F32Min(FoldMax(ys), F32OfInt(img.height))))

\* ---- the images and quads the preprocessor is called with

\* Images of 1..MaxImage pixels a side are cropped.
MaxImage == 2

\* Images of 1..MaxDim pixels a side are resized to 1..MaxTarget.
MaxDim == 45
MaxTarget == 4

\* Coordinates in half pixels from half a pixel before the image to a
\* pixel beyond it.
CropCoords(n) == {2 * i : i \in -1..(2 * n + 2)}

\* The quad through (a, c), (b, c), (b, d), (a, d), given in quarter
\* pixels: a rectangle, mirrored when a > b or c > d, a segment or a point
\* when they are equal.
QuadOf(a, b, c, d) == QuadOfQuarters(a, c, b, d)

PrepCall(op, width, height, bbox, target_size) ==
    [phase |-> "call", op |-> op, width |-> width, height |-> height,
     bbox |-> bbox, target_size |-> target_size,
     rect |-> [x |-> 0, y |-> 0, width |-> 0, height |-> 0],
     dims |-> <<0, 0>>]

\* The crops of a w x h image.
CropCalls(w, h) ==
    {PrepCall("crop", w, h, QuadOf(a, b, c, d), 0) :
        a \in CropCoords(w), b \in CropCoords(w),
        c \in CropCoords(h), d \in CropCoords(h)}

ResizeCalls ==
    {PrepCall("resize", w, h, QuadOf(0, 0, 0, 0), t) :
        w \in 1..MaxDim, h \in 1..MaxDim, t \in 1..MaxTarget}

\* ---- ImagePreprocessor::crop_text_region, calculate_resize_dimensions

CropCall ==
    /\ prep.phase = "call" /\ prep.op = "crop"
    /\ prep' = [prep EXCEPT !.phase = "done",
                  !.rect = CropTextRegion(
                      [width |-> prep.width, height |-> prep.height],
                      prep.bbox)]
    /\ UNCHANGED <<engineVars, det, rec, nms, tab>>

ResizeCall ==
    /\ prep.phase = "call" /\ prep.op = "resize"
    /\ prep' = [prep EXCEPT !.phase = "done",
                  !.dims = CalculateResizeDimensions(
                      prep.width, prep.height, prep.target_size)]
    /\ UNCHANGED <<engineVars, det, rec, nms, tab>>

PrepInit ==
    /\ EngineIdle
    /\ det = Idle
    /\ rec = Idle
    /\ nms = Idle
    /\ tab = Idle
    /\ \/ \E w \in 1..MaxImage, h \in 1..MaxImage : prep \in CropCalls(w, h)
       \/ prep \in ResizeCalls

PrepNext == CropCall \/ ResizeCall

PrepSpec == PrepInit /\ [][PrepNext]_vars

\* ------------------------------------------------------------------------
\* AngleClassifier (ocr/classifier.rs)
\* ------------------------------------------------------------------------

\* AngleClassifier::new: threshold 0.9, in percent.
ClassifierThreshold == 90

\* needs_rotation on a classification c = [angle, confidence]:
\* `angle == 180 && confidence > self.threshold`; auto_rotate turns the
\* image by 180 degrees exactly when it holds.
NeedsRotation(c) == c.angle = 180 /\ c.confidence > ClassifierThreshold

\* classify on the backend's probabilities <<p0, p1>> (percent):
\* `if probs[0] > probs[1] { (0, probs[0]) } else { (180, probs[1]) }`
Classify(probs) ==
    IF probs[1] > probs[2] THEN [angle |-> 0, confidence |-> probs[1]]
    ELSE [angle |-> 180, confidence |-> probs[2]]

\* ------------------------------------------------------------------------
\* OcrEngine (ocr/engine.rs)
\* ------------------------------------------------------------------------

\* ---- what the backends answer

\* One row of logits with class a at height k above the others.
Peak(a, k) == [i \in 1..NumClasses |-> IF i - 1 = a THEN k ELSE 0]

\* The recognizer's outputs inside the engine: "ab" with the f32 confidence
\* nearest 32/37, "e" with the one nearest 2/7, and nothing but blanks.
EngineLogits ==
    {<<Peak(1, 5), Peak(2, 5)>>, <<Peak(5, 1)>>, <<Peak(0, 5)>>}

\* The classifier's outputs <<p0, p1>>: upright, a weak 180 and a strong 180.
EngineProbs == {<<90, 10>>, <<40, 60>>, <<5, 95>>}

\* The detector's outputs, 32 x 32 maps: nothing; one component; two
\* components in one band, the right one found first; two components in
\* two bands; a component in the padding beyond the image.
EngineMaps ==
    {[width |-> 32, height |-> 32, bg |-> 0, rects |-> rs] :
        rs \in {<<>>,
                <<[x0 |-> 2, y0 |-> 2, x1 |-> 8, y1 |-> 4, p |-> 90]>>,
                <<[x0 |-> 16, y0 |-> 2, x1 |-> 22, y1 |-> 4, p |-> 90],
                  [x0 |-> 2, y0 |-> 6, x1 |-> 8, y1 |-> 8, p |-> 80]>>,
                <<[x0 |-> 16, y0 |-> 2, x1 |-> 22, y1 |-> 4, p |-> 90],
                  [x0 |-> 2, y0 |-> 26, x1 |-> 8, y1 |-> 28, p |-> 80]>>,
                <<[x0 |-> 24, y0 |-> 24, x1 |-> 31, y1 |-> 31, p |-> 90]>>}}

\* The rows the layout backend answers with: none; a table, a text
\* region over it, a figure that reaches beyond the image and a text
\* region under the confidence threshold.
EngineLayouts ==
    {<<>>,
     <<[region_type |-> "Table", bbox |-> <<0, 0, 10, 10>>,
        confidence |-> 90],
       [region_type |-> "Text", bbox |-> <<3, 0, 13, 10>>,
        confidence |-> 60],
       [region_type |-> "Figure", bbox |-> <<25, 0, 40, 10>>,
        confidence |-> 60],
       [region_type |-> "Text", bbox |-> <<0, 15, 10, 25>>,
        confidence |-> 40]>>}

\* ---- the engines and images process is called with

Engines ==
    [detector : BOOLEAN, classifier : BOOLEAN, recognizer : BOOLEAN,
     layout_detector : BOOLEAN,
     config : [enable_detection : BOOLEAN, enable_classification : BOOLEAN,
               enable_recognition : BOOLEAN,
               recognition_threshold : {F32OfInt(0), F32Quot(2, 7), F32Quot(1, 2)}]]

\* create_engine_from_dir returning Ok: a component is loaded if it is
\* enabled and its model file is in the directory; the layout detector if
\* its file is there.
CreateEngineFromDir(files, config) ==
    [detector        |-> config.enable_detection /\ "det.onnx" \in files,
     classifier      |-> config.enable_classification /\ "cls.onnx" \in files,
     recognizer      |-> config.enable_recognition /\ "latin_rec.onnx" \in files,
     layout_detector |-> "layout.onnx" \in files,
     config          |-> config]

\* create_engine_from_embedded returning Ok: detector and recognizer if
\* enabled, never a classifier, the layout detector if its bytes are there.
CreateEngineFromEmbedded(has_layout, config) ==
    [detector        |-> config.enable_detection,
     classifier      |-> FALSE,
     recognizer      |-> config.enable_recognition,
     layout_detector |-> has_layout,
     config          |-> config]

\* The engines the two functions build from a full model directory, from
\* one without layout.onnx, and from the embedded models.
FactoryEngines ==
    {CreateEngineFromDir(files, e.config) :
        files \in {{"det.onnx", "cls.onnx", "latin_rec.onnx", "layout.onnx"},
                   {"det.onnx", "cls.onnx", "latin_rec.onnx"}},
        e \in Engines}
    \cup {CreateEngineFromEmbedded(has_layout, e.config) :
            has_layout \in BOOLEAN, e \in Engines}

Images == {[width |-> 30, height |-> 30]}

\* ---- OcrResults built by a caller (the fields are public)

\* At most MaxBoxes boxes in a caller's OcrResult.
MaxBoxes == 3

\* The quad through (x1, y1) and (x2, y2) given in pixels.
Quad(x1, y1, x2, y2) ==
    QuadOfQuarters(x1 * CoordUnit, y1 * CoordUnit,
                   x2 * CoordUnit, y2 * CoordUnit)

UserBox(bbox, text) ==
    [bbox |-> bbox, text |-> text, detection_score |-> F32OfInt(1),
     recognition_score |-> F32OfInt(1), angle |-> 0]

\* Two boxes of band 0, one of band 1 without text, a slanted box whose
\* top corner is in band 0, a box above the image (y < 0), and a box with
\* the band and the x of the first.
UserBoxes ==
    {UserBox(Quad(0, 0, 10, 5), <<"a">>),
     UserBox(Quad(20, 8, 30, 12), <<"b">>),
     UserBox(Quad(0, 24, 10, 30), <<>>),
     UserBox(<<F32OfQuarters(120), F32OfQuarters(72), F32OfQuarters(160),
               F32OfQuarters(88), F32OfQuarters(152), F32OfQuarters(120),
               F32OfQuarters(112), F32OfQuarters(104)>>, <<"c", "d">>),
     UserBox(Quad(50, -30, 60, -22), <<"e">>),
     UserBox(Quad(0, 10, 10, 15), <<"f">>)}

UserResults ==
    {[boxes |-> bs, text |-> t, processing_time_ms |-> 0,
      image_size |-> <<100, 100>>, layout |-> <<>>] :
        bs \in UNION {[1..n -> UserBoxes] : n \in 0..MaxBoxes},
        t \in {<<>>, <<"x">>}}

\* ---- OcrEngine::process

\* A step 1 that takes a detection without boxes for a failure.
AfterDetectionRejectsEmpty(dr) ==
    /\ detection_result' = dr
    /\ IF dr.boxes = <<>>
       THEN /\ pc' = "err"
            /\ result' = result
            /\ region' = region
       ELSE /\ pc' = "classify"
            /\ result' = result
            /\ region' = 1

\* What a backend answers a call with: Ok(its output) or Err.
Answer(who, ok) ==
    [who |-> who, ok |-> ok,
     map |-> [width |-> 0, height |-> 0, bg |-> 0, rects |-> <<>>],
     probs |-> <<0, 0>>, logits |-> <<>>, regions |-> <<>>]

\* A backend is run and gives `answer`; where an earlier call of process
\* is being repeated, the backend answers what it answered then.
Backend(answer) ==
    /\ first # <<>> =>
          /\ Len(trace) < Len(first[1].trace)
          /\ first[1].trace[Len(trace) + 1] = answer
    /\ trace' = Append(trace, answer)

\* Where process goes once step 1 has a DetectionResult: straight back with
\* OcrResult::empty if it holds no box, else into the loop of step 2.
AfterDetection(dr) ==
    /\ detection_result' = dr
    /\ IF dr.boxes = <<>>
       THEN /\ pc' = "ok"
            /\ result' = EmptyResult(image.width, image.height)
            /\ region' = region
       ELSE /\ pc' = "classify"
            /\ result' = result
            /\ region' = 1

\* The whole image as the only region, its score 1.0.
WholeImage ==
    [boxes  |-> <<Quad(0, 0, image.width, image.height)>>,
     scores |-> <<F32OfInt(1)>>]

\* A step 1 that treats a missing detector like a disabled one.
DetectNoDetectorFallsBack ==
    /\ pc = "start"
    /\ ~ engine.detector
    /\ AfterDetection(WholeImage)
    /\ UNCHANGED <<engine, image, first, trace, rec_scores, cropped, text_boxes, layout, calls, error,
                   sorts, det, rec, nms, tab, prep>>

\* Step 1, `else` branch: no detector at all.
DetectNoDetector ==
    /\ pc = "start"
    /\ ~ engine.detector
    /\ pc' = "err"
    /\ error' = "Detection"
    /\ UNCHANGED <<engine, image, first, trace, rec_scores, detection_result, region, cropped,
                   text_boxes, layout, calls, result, sorts, det, rec, nms, tab, prep>>

\* Step 1 with a detector and detection disabled: the whole image.
DetectDisabled ==
    /\ pc = "start"
    /\ engine.detector /\ ~ engine.config.enable_detection
    /\ AfterDetection(WholeImage)
    /\ UNCHANGED <<engine, image, first, trace, rec_scores, cropped, text_boxes, layout, calls, error,
                   sorts, det, rec, nms, tab, prep>>

\* Step 1, detector.detect(image)? failing: the backend's error, or an
\* output of the wrong type.
DetectFails ==
    /\ pc = "start"
    /\ engine.detector /\ engine.config.enable_detection
    /\ calls' = Append(calls, "detector")
    /\ Backend(Answer("detector", FALSE))
    /\ pc' = "err"
    /\ error' = "Detection"
    /\ UNCHANGED <<engine, image, first, rec_scores, detection_result, region, cropped,
                   text_boxes, layout, result, sorts, det, rec, nms, tab, prep>>

\* TextDetector::detect on an image preprocessed to pre, the backend
\* answering with the map m: Ok(DetectionResult).
DetectionOf(out) == [boxes |-> out.boxes, scores |-> out.scores]

Detect(m, pre) ==
    DetectionOf(PostProcess(m, NewDetector, pre.scale_x, pre.scale_y,
                            <<image.width, image.height>>))

\* Step 1, detector.detect(image)? returning the boxes of a map.
DetectRegions ==
    /\ pc = "start"
    /\ engine.detector /\ engine.config.enable_detection
    /\ calls' = Append(calls, "detector")
    /\ \E m \in EngineMaps :
          /\ Backend([Answer("detector", TRUE) EXCEPT !.map = m])
          /\ AfterDetection(Detect(m, PreprocessForDetection(image)))
    /\ UNCHANGED <<engine, image, first, rec_scores, cropped, text_boxes, layout, error, sorts,
                   det, rec, nms, tab, prep>>

ClassifierRuns == engine.classifier /\ engine.config.enable_classification

\* Step 2, crop and step 2a without a classifier in use: (cropped, 0).
ClassifySkipped ==
    /\ pc = "classify"
    /\ ~ ClassifierRuns
    /\ cropped' = <<[rect |-> CropTextRegion(image,
                                             detection_result.boxes[region]),
                     angle |-> 0, rotated |-> FALSE, confidence |-> 0]>>
    /\ pc' = "recognize"
    /\ UNCHANGED <<engine, image, first, trace, rec_scores, detection_result, region, text_boxes,
                   layout, calls, result, error, sorts, det, rec, nms, tab, prep>>

\* Whether step 2a turns the crop: `if angle == 180 { cropped.rotate180() }`.
EngineRotates(c) == c.angle = 180

\* Step 2a, classifier.classify(&cropped)? returning.
ClassifyRegion ==
    /\ pc = "classify"
    /\ ClassifierRuns
    /\ calls' = Append(calls, "classifier")
    /\ \E probs \in EngineProbs :
          LET c == Classify(probs)
          IN  /\ Backend([Answer("classifier", TRUE) EXCEPT !.probs = probs])
              /\ cropped' = <<[rect |-> CropTextRegion(image,
                                        detection_result.boxes[region]),
                            angle |-> c.angle, rotated |-> EngineRotates(c),
                            confidence |-> c.confidence]>>
    /\ pc' = "recognize"
    /\ UNCHANGED <<engine, image, first, rec_scores, detection_result, region, text_boxes,
                   layout, result, error, sorts, det, rec, nms, tab, prep>>

\* Step 2a, classifier.classify(&cropped)? failing.
ClassifyFails ==
    /\ pc = "classify"
    /\ ClassifierRuns
    /\ calls' = Append(calls, "classifier")
    /\ Backend(Answer("classifier", FALSE))
    /\ pc' = "err"
    /\ error' = "Recognition"
    /\ UNCHANGED <<engine, image, first, rec_scores, detection_result, region, cropped,
                   text_boxes, layout, result, sorts, det, rec, nms, tab, prep>>

RecognizerRuns == engine.recognizer /\ engine.config.enable_recognition

\* A filter that applies the threshold even with recognition disabled.
KeepsBoxByThresholdOnly(rec_score, config) ==
    F32Le(config.recognition_threshold, rec_score)

\* A filter that also keeps every box of an engine without a recognizer.
KeepsBoxWhereRecognized(rec_score, config) ==
    \/ F32Le(config.recognition_threshold, rec_score)
    \/ ~ config.enable_recognition
    \/ ~ engine.recognizer

\* A filter that keeps only scores strictly above the threshold.
KeepsBoxStrict(rec_score, config) ==
    \/ F32Lt(config.recognition_threshold, rec_score)
    \/ ~ config.enable_recognition

\* `if rec_score >= self.config.recognition_threshold
\*     || !self.config.enable_recognition`
KeepsBox(rec_score, config) ==
    \/ F32Le(config.recognition_threshold, rec_score)
    \/ ~ config.enable_recognition

\* The end of one turn of the loop of step 2: push the TextBox if it passes
\* the filter, then the next region, or step 3 after the last.
PushAndAdvance(text, rec_score) ==
    /\ rec_scores' = Append(rec_scores, rec_score)
    /\ text_boxes' =
          IF KeepsBox(rec_score, engine.config)
          THEN Append(text_boxes,
                      [bbox |-> detection_result.boxes[region],
                       text |-> text,
                       detection_score |-> detection_result.scores[region],
                       recognition_score |-> rec_score,
                       angle |-> cropped[1].angle])
          ELSE text_boxes
    /\ IF region < Len(detection_result.boxes)
       THEN region' = region + 1 /\ pc' = "classify"
       ELSE region' = region /\ pc' = "layout"

\* Step 2b without a recognizer in use: (String::new(), 0.0).
RecognizeSkipped ==
    /\ pc = "recognize"
    /\ ~ RecognizerRuns
    /\ PushAndAdvance(<<>>, F32OfInt(0))
    /\ UNCHANGED <<engine, image, first, trace, detection_result, cropped, layout, calls,
                   result, error, sorts, det, rec, nms, tab, prep>>

\* Step 2b, recognizer.recognize(&rotated)? returning.
RecognizeRegion ==
    /\ pc = "recognize"
    /\ RecognizerRuns
    /\ calls' = Append(calls, "recognizer")
    /\ \E l \in EngineLogits :
          \E r \in {DecodeOutput(l, FullDictionary)} :
              /\ Backend([Answer("recognizer", TRUE) EXCEPT !.logits = l])
              /\ PushAndAdvance(r.text, r.confidence)
    /\ UNCHANGED <<engine, image, first, detection_result, cropped, layout, result,
                   error, sorts, det, rec, nms, tab, prep>>

\* A step 2b that leaves out the region whose recognition failed and goes
\* on with the next.
RecognizeFailsSkipsRegion ==
    /\ pc = "recognize"
    /\ RecognizerRuns
    /\ calls' = Append(calls, "recognizer")
    /\ Backend(Answer("recognizer", FALSE))
    /\ IF region < Len(detection_result.boxes)
       THEN region' = region + 1 /\ pc' = "classify"
       ELSE region' = region /\ pc' = "layout"
    /\ UNCHANGED <<engine, image, first, rec_scores, detection_result, cropped,
                   text_boxes, layout, result, error, sorts, det, rec, nms, tab, prep>>

\* A step 2b that runs the recognizer again on the region it failed on.
RecognizeFailsRetries ==
    /\ pc = "recognize"
    /\ RecognizerRuns
    /\ calls' = Append(calls, "recognizer")
    /\ Backend(Answer("recognizer", FALSE))
    /\ UNCHANGED <<engine, image, first, pc, rec_scores, detection_result,
                   region, cropped, text_boxes, layout, result, error,
                   sorts, det, rec, nms, tab, prep>>

\* Step 2b, recognizer.recognize(&rotated)? failing.
RecognizeFails ==
    /\ pc = "recognize"
    /\ RecognizerRuns
    /\ calls' = Append(calls, "recognizer")
    /\ Backend(Answer("recognizer", FALSE))
    /\ pc' = "err"
    /\ error' = "Recognition"
    /\ UNCHANGED <<engine, image, first, rec_scores, detection_result, region, cropped,
                   text_boxes, layout, result, sorts, det, rec, nms, tab, prep>>

\* `format!("{:?}", r.region_type).to_lowercase()`
LowerName(region_type) ==
    CASE region_type = "Text"   -> "text"
      [] region_type = "Title"  -> "title"
      [] region_type = "List"   -> "list"
      [] region_type = "Table"  -> "table"
      [] region_type = "Figure" -> "figure"
      [] OTHER                  -> "unknown"

\* The RegionBoxes of the regions whose type is in `types`.
RegionBoxes(regions, types, name) ==
    LET picked == SelectSeq(regions, LAMBDA r : r.region_type \in types)
    IN  [i \in 1..Len(picked) |->
            [region_type |-> IF name = "" THEN LowerName(picked[i].region_type)
                             ELSE name,
             bbox |-> picked[i].bbox,
             confidence |-> picked[i].confidence]]

\* The LayoutInfo made of a LayoutResult's regions.
LayoutInfoOf(regions) ==
    [tables       |-> RegionBoxes(regions, {"Table"}, "table"),
     text_regions |-> RegionBoxes(regions, {"Text", "Title", "List"}, ""),
     figures      |-> RegionBoxes(regions, {"Figure"}, "figure")]

\* `start.elapsed().as_millis() as u64` (start is the Instant::now() of the
\* first line of process): what the clock says, which no input of process
\* determines: any u64.  The readings up to MaxMillis are drawn.
MaxMillis == 40
Elapsed == 0..MaxMillis

\* An end of process with a time budget: when the clock has passed it, the
\* layout is given up.
ReturnWithinBudget(lay) ==
    \E elapsed \in Elapsed :
        /\ layout' = IF elapsed > 0 THEN <<>> ELSE lay
        /\ result' = SortByReadingOrder(
                        [boxes |-> text_boxes, text |-> <<>>,
                         processing_time_ms |-> elapsed,
                         image_size |-> <<image.width, image.height>>,
                         layout |-> IF elapsed > 0 THEN <<>> ELSE lay])
        /\ sorts' = 1
        /\ pc' = "ok"

\* The end of process: the OcrResult is built with the time the clock
\* gives, sorted, and returned Ok.
Return(lay) ==
    /\ layout' = lay
    /\ \E elapsed \in Elapsed :
          result' = SortByReadingOrder(
                       [boxes |-> text_boxes, text |-> <<>>,
                        processing_time_ms |-> elapsed,
                        image_size |-> <<image.width, image.height>>,
                        layout |-> lay])
    /\ sorts' = 1
    /\ pc' = "ok"

\* Step 3 without a layout detector, then step 4.
FinishWithoutLayout ==
    /\ pc = "layout"
    /\ ~ engine.layout_detector
    /\ Return(<<>>)
    /\ UNCHANGED <<engine, image, first, trace, rec_scores, detection_result, region, cropped,
                   text_boxes, calls, error, det, rec, nms, tab, prep>>

\* Step 3, layout_detector.detect(image) returning Ok, then step 4.
FinishWithLayout ==
    /\ pc = "layout"
    /\ engine.layout_detector
    /\ calls' = Append(calls, "layout")
    /\ \E rows \in EngineLayouts :
          /\ Backend([Answer("layout", TRUE) EXCEPT !.regions = rows])
          /\ Return(<<LayoutInfoOf(LayoutPostProcess(rows, image.width,
                                                     image.height))>>)
    /\ UNCHANGED <<engine, image, first, rec_scores, detection_result, region, cropped,
                   text_boxes, error, det, rec, nms, tab, prep>>

\* A step 3 in which the layout detector's Err ends process.
FinishLayoutAborts ==
    /\ pc = "layout"
    /\ engine.layout_detector
    /\ calls' = Append(calls, "layout")
    /\ Backend(Answer("layout", FALSE))
    /\ pc' = "err"
    /\ error' = "Layout"
    /\ UNCHANGED <<engine, image, first, rec_scores, detection_result, region,
                   cropped, text_boxes, layout, result, sorts, det, rec, nms, tab, prep>>

\* Step 3, layout_detector.detect(image) returning Err, then step 4.
FinishLayoutFailed ==
    /\ pc = "layout"
    /\ engine.layout_detector
    /\ calls' = Append(calls, "layout")
    /\ Backend(Answer("layout", FALSE))
    /\ Return(<<>>)
    /\ UNCHANGED <<engine, image, first, rec_scores, detection_result, region, cropped,
                   text_boxes, error, det, rec, nms, tab, prep>>

\* ---- the caller

\* sort_by_reading_order is called at most MaxSorts times on one result.
MaxSorts == 3

\* The caller sorts an OcrResult it holds: one returned by process, or one
\* it built.
SortResult ==
    /\ pc \in {"ok", "user"}
    /\ sorts < MaxSorts
    /\ result' = SortByReadingOrder(result)
    /\ sorts' = sorts + 1
    /\ UNCHANGED <<engine, image, first, trace, rec_scores, pc, detection_result, region, cropped,
                   text_boxes, layout, calls, error, det, rec, nms, tab, prep>>

\* process is entered with a built engine and an image, or the caller
\* holds an OcrResult of its own.
Init ==
    /\ det = Idle /\ rec = Idle /\ nms = Idle /\ tab = Idle
    /\ prep = Idle
    /\ detection_result = [boxes |-> <<>>, scores |-> <<>>]
    /\ region = 0 /\ cropped = <<>>
    /\ text_boxes = <<>> /\ layout = <<>> /\ calls = <<>>
    /\ error = None /\ sorts = 0 /\ rec_scores = <<>>
    /\ trace = <<>> /\ first = <<>>
    /\ \/ /\ pc = "start"
          /\ engine \in Engines \cup FactoryEngines
          /\ image \in Images
          /\ result = EmptyResult(0, 0)
       \/ /\ pc = "user"
          /\ engine = NoEngine
          /\ image = [width |-> 100, height |-> 100]
          /\ result \in UserResults

Next ==
    \/ DetectNoDetector \/ DetectDisabled \/ DetectFails \/ DetectRegions
    \/ ClassifySkipped \/ ClassifyRegion \/ ClassifyFails
    \/ RecognizeSkipped \/ RecognizeRegion \/ RecognizeFails
    \/ FinishWithoutLayout \/ FinishWithLayout \/ FinishLayoutFailed
    \/ SortResult

Spec == Init /\ [][Next]_vars

\* ------------------------------------------------------------------------
\* Detector and engine together
\* ------------------------------------------------------------------------

DetEngineInit == DetInit \/ Init

DetEngineNext == DetNext \/ Next

DetEngineSpec == DetEngineInit /\ [][DetEngineNext]_vars

\* ------------------------------------------------------------------------
\* The same call twice
\* ------------------------------------------------------------------------

\* The fields of an OcrResult other than processing_time_ms: the boxes in
\* their order (bbox, text, scores, angle), the text, the image size and the
\* layout.
Content(r) ==
    [boxes |-> r.boxes, text |-> r.text, image_size |-> r.image_size,
     layout |-> r.layout]

\* What a finished call is remembered by: the backends' answers, how it
\* ended, and of its OcrResult all but processing_time_ms.
Outcome(answers, how, res, err, boxes, scores) ==
    [trace |-> answers, pc |-> how, result |-> Content(res), error |-> err,
     boxes |-> boxes, scores |-> scores]

\* process has returned; it is called again on the same engine with the
\* same image, and the backends will answer as they did.
ProcessAgain ==
    /\ pc \in {"ok", "err"}
    /\ sorts <= 1
    /\ first = <<>>
    /\ first' = <<Outcome(trace, pc, result, error, <<>>, <<>>)>>
    /\ pc' = "start"
    /\ detection_result' = [boxes |-> <<>>, scores |-> <<>>]
    /\ region' = 0 /\ cropped' = <<>>
    /\ text_boxes' = <<>> /\ layout' = <<>> /\ calls' = <<>>
    /\ result' = EmptyResult(0, 0) /\ error' = None /\ sorts' = 0
    /\ rec_scores' = <<>> /\ trace' = <<>>
    /\ UNCHANGED <<engine, image, det, rec, nms, tab, prep>>

\* detect's post-processing has ended; it is run again on the same output
\* tensor with the same detector.
DetectAgain ==
    /\ det.phase \in {"ok", "err", "panic"}
    /\ first = <<>>
    /\ first' = <<Outcome(<<>>, det.phase, EmptyResult(0, 0), det.error,
                          det.boxes, det.scores)>>
    /\ det' = DetCall(det.tensor, det.d, det.scale_x, det.scale_y,
                      det.orig_size)
    /\ UNCHANGED <<engine, image, pc, detection_result, region, cropped,
                   text_boxes, layout, calls, result, error, sorts,
                   rec_scores, trace, rec, nms, tab, prep>>

TwinInit == DetInit \/ Init

TwinNext == DetNext \/ Next \/ ProcessAgain \/ DetectAgain

TwinSpec == TwinInit /\ [][TwinNext]_vars

\* ------------------------------------------------------------------------
\* ocr/table.rs: TableStructure and TableRecognizer
\* ------------------------------------------------------------------------

\* The SLANet token vocabulary of decode_tokens.
TokEos == 2
TokTd == 3
TokTdEnd == 4
TokTr == 5
TokTrEnd == 6
ColspanBase == 7
RowspanBase == 20
SpanTokensEnd == 33
MaxSpan == 10

\* A span that is taken from the token as it is.
SpanOfUnclamped(t, base) == t - base

\* `((t - base) as usize).max(1).min(10)`
SpanOf(t, base) == Min(Max(t - base, 1), MaxSpan)

\* The tensor the cell boxes are read from: `bboxes.and_then(..)` keeps a
\* Float32 tensor and drops every other one.
BboxData(bboxes) ==
    IF bboxes # <<>> /\ bboxes[1].dtype = "Float32" THEN <<bboxes[1]>>
    ELSE <<>>

\* `shape.len() >= 2 && cell_idx < shape[shape.len() - 2]`
HasBboxRow(arr, cell_idx) ==
    /\ Len(arr.shape) >= 2
    /\ cell_idx < arr.shape[Len(arr.shape) - 1]

\* arr[[0, cell_idx, k]] for k = 0..3 is written for a tensor of 3 axes
\* with a first batch and 4 values a row: on any other it panics.
BboxIndexPanics(arr) ==
    \/ Len(arr.shape) # 3
    \/ arr.shape[1] = 0
    \/ arr.shape[3] < 4

\* value / scale as a fraction, scale = <<numerator, denominator>>.
OverScale(v, scale) == <<v * scale[2], scale[1]>>

ZeroBbox == <<<<0, 1>>, <<0, 1>>, <<0, 1>>, <<0, 1>>>>

\* The bbox of the cell that closes, lines 435-450.
CellBbox(bbox_data, cell_idx, scale_x, scale_y) ==
    IF bbox_data # <<>> /\ HasBboxRow(bbox_data[1], cell_idx)
    THEN LET row == bbox_data[1].rows[cell_idx + 1]
         IN  <<OverScale(row[1], scale_x), OverScale(row[2], scale_y),
               OverScale(row[3], scale_x), OverScale(row[4], scale_y)>>
    ELSE ZeroBbox

DecodeStart ==
    [cells |-> <<>>, current_row |-> 0, current_col |-> 0, max_cols |-> 0,
     cell_idx |-> 0, in_cell |-> FALSE, cell_row_span |-> 1,
     cell_col_span |-> 1, stopped |-> FALSE, panicked |-> FALSE]

\* One turn of `for &token in tokens { match token { .. } }`.
DecodeToken(st, token, bbox_data, scale_x, scale_y) ==
    IF token = TokEos THEN [st EXCEPT !.stopped = TRUE]
    ELSE IF token = TokTr THEN [st EXCEPT !.current_col = 0]
    ELSE IF token = TokTrEnd THEN
        [st EXCEPT !.max_cols = Max(st.max_cols, st.current_col),
                   !.current_row = st.current_row + 1]
    ELSE IF token = TokTd THEN
        [st EXCEPT !.in_cell = TRUE, !.cell_row_span = 1,
                   !.cell_col_span = 1]
    ELSE IF token = TokTdEnd THEN
        IF ~ st.in_cell THEN st
        ELSE IF /\ bbox_data # <<>>
                /\ HasBboxRow(bbox_data[1], st.cell_idx)
                /\ BboxIndexPanics(bbox_data[1])
        THEN [st EXCEPT !.panicked = TRUE]
        ELSE [st EXCEPT
                !.cells = Append(st.cells,
                    [row |-> st.current_row, col |-> st.current_col,
                     row_span |-> st.cell_row_span,
                     col_span |-> st.cell_col_span,
                     bbox |-> CellBbox(bbox_data, st.cell_idx,
                                       scale_x, scale_y),
                     content |-> <<>>, confidence |-> 100]),
                !.current_col = st.current_col + st.cell_col_span,
                !.cell_idx = st.cell_idx + 1,
                !.in_cell = FALSE]
    ELSE IF token >= ColspanBase /\ token < RowspanBase THEN
        [st EXCEPT !.cell_col_span = SpanOf(token, ColspanBase)]
    ELSE IF token >= RowspanBase /\ token < SpanTokensEnd THEN
        [st EXCEPT !.cell_row_span = SpanOf(token, RowspanBase)]
    ELSE st

\* A loop that goes on past the end-of-sequence token.
RECURSIVE DecodeTokensLoopPastEos(_, _, _, _, _, _)
DecodeTokensLoopPastEos(st, tokens, i, bbox_data, scale_x, scale_y) ==
    IF i > Len(tokens) \/ st.panicked THEN st
    ELSE DecodeTokensLoopPastEos(
             DecodeToken(st, tokens[i], bbox_data, scale_x, scale_y),
             tokens, i + 1, bbox_data, scale_x, scale_y)

RECURSIVE DecodeTokensLoop(_, _, _, _, _, _)
DecodeTokensLoop(st, tokens, i, bbox_data, scale_x, scale_y) ==
    IF i > Len(tokens) \/ st.stopped \/ st.panicked THEN st
    ELSE DecodeTokensLoop(
             DecodeToken(st, tokens[i], bbox_data, scale_x, scale_y),
             tokens, i + 1, bbox_data, scale_x, scale_y)

\* decode_tokens: the cells and the table's size, or the panic of a cell
\* box read.
DecodeTokens(tokens, bboxes, scale_x, scale_y) ==
    LET st == DecodeTokensLoop(DecodeStart, tokens, 1, BboxData(bboxes),
                               scale_x, scale_y)
    IN  [cells     |-> st.cells,
         num_rows  |-> Max(st.current_row, 1),
         num_cols  |-> Max(st.max_cols, 1),
         panicked  |-> st.panicked]

\* The argmax of one position: `if val > max_val` from NEG_INFINITY and
\* max_idx = 0, so an empty vocabulary gives token 0.
ArgMaxToken(row) == IF row = <<>> THEN 0 ELSE ArgMax(row)

\* structure_arr[[0, i, j]] for 3 axes and structure_arr[[i, j]] for any
\* other number: the first read panics on an empty batch and on 4 axes or
\* more.
StructureIndexPanics(structure) ==
    LET n == Len(structure.shape)
    IN  /\ structure.shape[n - 1] > 0 /\ structure.shape[n] > 0
        /\ \/ n > 3
           \/ n = 3 /\ structure.shape[1] = 0

\* The tokens parse_structure_tokens hands to decode_tokens: the values of
\* an Int64 tensor, the argmax of every position of a Float32 one.
StructureTokens(structure) ==
    IF structure.dtype = "Int64" THEN structure.tokens
    ELSE [i \in 1..Len(structure.rows) |-> ArgMaxToken(structure.rows[i])]

\* TableStructure::as_grid: every cell in order writes itself (its index in
\* cells, 0 for None) over the positions it covers inside the grid.
CoversInGrid(cell, r, c, num_rows, num_cols) ==
    /\ cell.row <= r /\ r < Min(cell.row + cell.row_span, num_rows)
    /\ cell.col <= c /\ c < Min(cell.col + cell.col_span, num_cols)

RECURSIVE AsGridLoop(_, _, _)
AsGridLoop(t, grid, k) ==
    IF k > Len(t.cells) THEN grid
    ELSE AsGridLoop(t,
             [p \in DOMAIN grid |->
                 IF CoversInGrid(t.cells[k], p[1], p[2],
                                 t.num_rows, t.num_cols)
                 THEN k ELSE grid[p]],
             k + 1)

AsGrid(t) ==
    AsGridLoop(t, [p \in (0..(t.num_rows - 1)) \X (0..(t.num_cols - 1))
                     |-> 0], 1)

NoGrid == [p \in {} |-> 0]

\* ---- the tensors the backend answers a table with

MaxTokens == 4

TokenAlphabet == {0, TokEos, TokTd, TokTdEnd, TokTr, TokTrEnd, 9, 22}

TokenSeqs == UNION {[1..n -> TokenAlphabet] : n \in 0..MaxTokens}

\* Whole tables: a cell spanning two rows beside and above other cells, a
\* cell spanning two columns, a row that is never closed; span tokens at
\* both ends of their ranges, a span token before the cell opens, a cell
\* after a spanning one, tokens after the end of the sequence.
TableStreams ==
    {<<5, 3, 22, 4, 6, 5, 3, 4, 6>>,
     <<5, 3, 22, 4, 3, 4, 6, 5, 3, 4, 6, 2>>,
     <<5, 3, 9, 4, 6, 5, 3, 4, 3, 4, 6>>,
     <<5, 3, 4, 3, 4, 6>>,
     <<5, 3, 4, 3, 4>>,
     <<5, 3, 19, 32, 4, 6>>,
     <<5, 3, 7, 20, 4, 6>>,
     <<5, 3, 18, 31, 4, 3, 4, 6>>,
     <<5, 9, 22, 3, 4, 6>>,
     <<5, 3, 9, 4, 3, 4, 6, 2, 5, 3, 4, 6>>}

\* Two cells in a row, and a third after the end of the sequence.
BoxedStream == <<5, 3, 4, 3, 4, 6, 2, 3, 4>>

Int64Structure(tokens) ==
    [dtype |-> "Int64", shape |-> <<1, Len(tokens)>>, tokens |-> tokens,
     rows |-> <<>>]

\* A row whose largest value is at `token`, over a vocabulary of 7.
TokenRow(token) == [j \in 1..7 |-> IF j = token + 1 THEN 3 ELSE 0]

\* The stream <tr> <td> </td> </tr> as scores, under the given shape.
Float32Structure(shape) ==
    [dtype |-> "Float32", shape |-> shape, tokens |-> <<>>,
     rows |-> <<TokenRow(5), TokenRow(3), TokenRow(4), TokenRow(6)>>]

OtherStructure(ty) ==
    [dtype |-> ty, shape |-> <<1, 4>>, tokens |-> <<5, 3, 4, 6>>,
     rows |-> <<>>]

BboxTensor(ty, shape) ==
    [dtype |-> ty, shape |-> shape,
     rows |-> <<<<2, 4, 6, 8>>, <<10, 12, 14, 16>>>>]

BboxTensors ==
    {<<>>} \cup
    {<<BboxTensor(ty, shape)>> :
        ty \in {"Float32", "Int64"},
        shape \in {<<1, 2, 4>>, <<1, 1, 4>>, <<2, 4>>, <<1, 2, 3>>,
                   <<0, 2, 4>>, <<4>>}}

Scales == {<<1, 1>>, <<1, 2>>}

TabCall(structure, bboxes, scale_x, scale_y) ==
    [phase |-> "call", structure |-> structure, bboxes |-> bboxes,
     scale_x |-> scale_x, scale_y |-> scale_y,
     cells |-> <<>>, num_rows |-> 0, num_cols |-> 0, grid |-> NoGrid,
     error |-> None]

TabCalls ==
    {TabCall(Int64Structure(tokens), <<>>, <<1, 1>>, <<1, 1>>) :
        tokens \in TokenSeqs \cup TableStreams}
    \cup {TabCall(Int64Structure(BoxedStream), b, <<1, 2>>, sy) :
            b \in BboxTensors, sy \in Scales}
    \cup {TabCall(Float32Structure(shape), <<>>, <<1, 1>>, <<1, 1>>) :
            shape \in {<<4, 7>>, <<1, 4, 7>>, <<0, 4, 7>>, <<1, 1, 4, 7>>,
                       <<28>>}}
    \cup {TabCall(OtherStructure(ty), <<>>, <<1, 1>>, <<1, 1>>) :
            ty \in {"Float64", "Int32", "Uint8"}}

\* ---- TableRecognizer::parse_structure_tokens on the backend's answer

\* The structure tensor is one parse_structure_tokens reads tokens from.
TableReadsTokens ==
    \/ tab.structure.dtype = "Int64"
    \/ /\ tab.structure.dtype = "Float32"
       /\ Len(tab.structure.shape) >= 2
       /\ ~ StructureIndexPanics(tab.structure)

TableDecoded ==
    DecodeTokens(StructureTokens(tab.structure), tab.bboxes,
                 tab.scale_x, tab.scale_y)

\* The tokens are read and decoded: Ok((cells, num_rows, num_cols)).
TableOk ==
    /\ tab.phase = "call"
    /\ TableReadsTokens
    /\ ~ TableDecoded.panicked
    /\ tab' = [tab EXCEPT !.phase = "ok",
                          !.cells = TableDecoded.cells,
                          !.num_rows = TableDecoded.num_rows,
                          !.num_cols = TableDecoded.num_cols]
    /\ UNCHANGED <<engineVars, det, rec, nms, prep>>

\* `_ => return Err(OcrError::Detection("Unexpected structure output
\* type"))`
TableBadType ==
    /\ tab.phase = "call"
    /\ tab.structure.dtype \notin {"Float32", "Int64"}
    /\ tab' = [tab EXCEPT !.phase = "err", !.error = "Detection"]
    /\ UNCHANGED <<engineVars, det, rec, nms, prep>>

\* `if shape.len() < 2 { return Err(OcrError::Detection("Invalid
\* structure shape")) }`
TableBadShape ==
    /\ tab.phase = "call"
    /\ tab.structure.dtype = "Float32"
    /\ Len(tab.structure.shape) < 2
    /\ tab' = [tab EXCEPT !.phase = "err", !.error = "Detection"]
    /\ UNCHANGED <<engineVars, det, rec, nms, prep>>

\* An index of the structure tensor or of the bbox tensor is out of
\* bounds: the call panics.
TablePanics ==
    /\ tab.phase = "call"
    /\ IF TableReadsTokens THEN TableDecoded.panicked
       ELSE /\ tab.structure.dtype = "Float32"
            /\ Len(tab.structure.shape) >= 2
    /\ tab' = [tab EXCEPT !.phase = "panic"]
    /\ UNCHANGED <<engineVars, det, rec, nms, prep>>

\* The caller asks the structure for its grid.
TableAsGrid ==
    /\ tab.phase = "ok"
    /\ tab' = [tab EXCEPT !.phase = "grid", !.grid = AsGrid(tab)]
    /\ UNCHANGED <<engineVars, det, rec, nms, prep>>

TabInit ==
    /\ EngineIdle
    /\ det = Idle
    /\ rec = Idle
    /\ nms = Idle
    /\ tab \in TabCalls
    /\ prep = Idle

TabNext ==
    TableOk \/ TableBadType \/ TableBadShape \/ TablePanics \/ TableAsGrid

TableSpec == TabInit /\ [][TabNext]_vars

\* ------------------------------------------------------------------------
\* Properties
\* ------------------------------------------------------------------------

\* An OcrResult that sort_by_reading_order has been called on: every Ok
\* result of process with boxes, and a caller's result once sorted.
Sorted == sorts >= 1

\* process has returned Ok(result).
ReturnedOk == pc = "ok"

\* The place of box i's text in the joined text: after the texts and the
\* line breaks of the boxes before it.
RECURSIVE OffsetOf(_, _)
OffsetOf(boxes, i) ==
    IF i = 1 THEN 0
    ELSE OffsetOf(boxes, i - 1) + Len(boxes[i - 1].text) + 1

\* text is the boxes' texts in order with one line break between two.
IsJoinOf(text, boxes) ==
    IF boxes = <<>> THEN text = <<>>
    ELSE /\ Len(text) = OffsetOf(boxes, Len(boxes)) + Len(boxes[Len(boxes)].text)
         /\ \A i \in 1..Len(boxes) :
               SubSeq(text, OffsetOf(boxes, i) + 1,
                      OffsetOf(boxes, i) + Len(boxes[i].text)) = boxes[i].text
         /\ \A i \in 1..(Len(boxes) - 1) :
               text[OffsetOf(boxes, i) + Len(boxes[i].text) + 1] = NL

\* C1: after any call of sort_by_reading_order, and in every OcrResult that
\* process returns Ok, the text field is the texts of the boxes in their
\* current order joined with "\n".
C1_TextIsJoinedAfterSort ==
    (Sorted \/ ReturnedOk) => IsJoinOf(result.text, result.boxes)

\* A caller's result of three boxes, one of them without text and one with
\* two characters, has been sorted: the text has two line breaks.
C1_Witness ==
    /\ pc = "user" /\ sorts = 1
    /\ Len(result.boxes) = 3
    /\ \E i, j \in 1..3 : /\ result.boxes[i].text = <<>>
                           /\ Len(result.boxes[j].text) = 2
    /\ Len(SelectSeq(result.text, LAMBDA ch : ch = NL)) = 2

\* C2: sort_by_reading_order is idempotent: called again on a result it has
\* sorted, it leaves the order of the boxes and the text unchanged.
C2_SortIsIdempotent ==
    Sorted => /\ SortByReadingOrder(result).boxes = result.boxes
              /\ SortByReadingOrder(result).text = result.text

\* A result sorted twice that holds two different boxes with the same band
\* and the same leftmost x.
C2_Witness ==
    /\ sorts >= 2
    /\ \E i, j \in 1..Len(result.boxes) :
          /\ i < j
          /\ result.boxes[i] # result.boxes[j]
          /\ RowOf(result.boxes[i]) = RowOf(result.boxes[j])
          /\ Rect(result.boxes[i])[1] = Rect(result.boxes[j])[1]

Count(s, v) == Cardinality({i \in 1..Len(s) : s[i] = v})

\* The least of a set of f32.
F32SetMin(S) == CHOOSE m \in S : \A n \in S : F32Le(m, n)

\* band = the rect's top y divided by 20 and truncated (the whole pixels
\* of the top decide it).
Band(b) ==
    LET top == F32Trunc(F32SetMin({b.bbox[2], b.bbox[4], b.bbox[6], b.bbox[8]}))
        q   == (IF top >= 0 THEN top ELSE -top) \div 20
    IN  IF top >= 0 THEN q ELSE -q

LeftmostX(b) == F32SetMin({b.bbox[1], b.bbox[3], b.bbox[5], b.bbox[7]})

InReadingOrder(boxes) ==
    \A i \in 1..(Len(boxes) - 1) :
        /\ Band(boxes[i]) <= Band(boxes[i + 1])
        /\ Band(boxes[i]) = Band(boxes[i + 1])
              => F32Le(LeftmostX(boxes[i]), LeftmostX(boxes[i + 1]))

\* C3: the boxes of every OcrResult returned by process are a permutation
\* of the kept region boxes, arranged in reading order: of two consecutive
\* boxes the first has the smaller band or, in the same band, a leftmost x
\* that is not larger.
C3_ProcessBoxesInReadingOrder ==
    ReturnedOk =>
        /\ Len(result.boxes) = Len(text_boxes)
        /\ \A i \in 1..Len(text_boxes) :
              Count(result.boxes, text_boxes[i]) = Count(text_boxes, text_boxes[i])
        /\ InReadingOrder(result.boxes)

\* process returned two boxes of one band in the opposite of the order
\* the detector found them in.
C3_Witness ==
    /\ ReturnedOk
    /\ Len(text_boxes) = 2
    /\ result.boxes = <<text_boxes[2], text_boxes[1]>>
    /\ Band(text_boxes[1]) = Band(text_boxes[2])
    /\ F32Lt(LeftmostX(text_boxes[2]), LeftmostX(text_boxes[1]))

\* The reference CTC decoder: collapse every run of equal classes to one,
\* delete the blanks, map each class to its character.
Collapse(classes) ==
    LET keep == {i \in 1..Len(classes) : i = 1 \/ classes[i] # classes[i - 1]}
        Nth(k) == CHOOSE i \in keep : Cardinality({j \in keep : j < i}) = k - 1
    IN  [k \in 1..Cardinality(keep) |-> classes[Nth(k)]]

ReferenceDecode(classes, dictionary) ==
    LET kept == SelectSeq(Collapse(classes), LAMBDA c : c # 0)
    IN  [k \in 1..Len(kept) |-> dictionary[kept[k] + 1]]

ArgMaxes(logits) == [t \in 1..Len(logits) |-> ArgMax(logits[t])]

\* C4: on logits whose per-timestep argmax classes are all in the
\* dictionary, decode_output yields the reference decoding of the argmax
\* sequence; [5,5,blank,5] gives the character of class 5 twice and
\* [5,5,5] gives it once.
C4_GreedyCtcIsReference ==
    (/\ rec.phase = "ok"
     /\ \A t \in 1..Len(rec.logits) :
           ArgMax(rec.logits[t]) < Len(rec.dictionary))
    => /\ rec.text = ReferenceDecode(ArgMaxes(rec.logits), rec.dictionary)
       /\ ArgMaxes(rec.logits) = <<5, 5, 0, 5>>
             => rec.text = <<rec.dictionary[6], rec.dictionary[6]>>
       /\ ArgMaxes(rec.logits) = <<5, 5, 5>>
             => rec.text = <<rec.dictionary[6]>>

\* [5,5,blank,5] has been decoded to "ee".
C4_Witness ==
    /\ rec.phase = "ok"
    /\ rec.dictionary = FullDictionary
    /\ ArgMaxes(rec.logits) = <<5, 5, 0, 5>>
    /\ rec.text = <<"e", "e">>

\* All 8 coordinates of a box are inside the width x height image.
InImage(bbox, width, height) ==
    /\ \A i \in {1, 3, 5, 7} : /\ F32Le(F32OfInt(0), bbox[i])
                                /\ F32Le(bbox[i], F32OfInt(width))
    /\ \A i \in {2, 4, 6, 8} : /\ F32Le(F32OfInt(0), bbox[i])
                                /\ F32Le(bbox[i], F32OfInt(height))

\* C5: every coordinate of every box returned by detect lies in [0, width]
\* for x and [0, height] for y of the original image, and so does the bbox
\* of every TextBox of process, the whole-image region included.
C5_BoxesInsideImage ==
    /\ det.phase = "ok" =>
          \A i \in 1..Len(det.boxes) :
              InImage(det.boxes[i], det.orig_size[1], det.orig_size[2])
    /\ pc \notin {"user", "idle"} =>
          /\ \A i \in 1..Len(detection_result.boxes) :
                InImage(detection_result.boxes[i], image.width, image.height)
          /\ \A i \in 1..Len(text_boxes) :
                InImage(text_boxes[i].bbox, image.width, image.height)
          /\ \A i \in 1..Len(result.boxes) :
                InImage(result.boxes[i].bbox, image.width, image.height)

\* detect returned a box of a component whose unclipped box reached beyond
\* the right and bottom edges of an image smaller than the map.
C5_Witness ==
    /\ det.phase = "ok"
    /\ det.orig_size = <<MapWidth - 1, MapHeight - 1>>
    /\ \E i \in 1..Len(det.boxes) :
          /\ det.boxes[i][5] = F32OfInt(det.orig_size[1])
          /\ det.boxes[i][6] = F32OfInt(det.orig_size[2])
          /\ \E k \in 1..Len(det.from[i]) :
                det.from[i][k][1] >= det.orig_size[1]

\* The sum of the map's probabilities over a component's pixels, counted
\* probability by probability.
RECURSIVE WeightedCount(_, _, _)
WeightedCount(m, contour, ps) ==
    IF ps = {} THEN 0
    ELSE LET p == CHOOSE q \in ps : TRUE
         IN  p * Cardinality({k \in 1..Len(contour) :
                                 ProbAt(m, contour[k][1], contour[k][2]) = p})
             + WeightedCount(m, contour, ps \ {p})

ProbSum(m, contour) ==
    WeightedCount(m, contour,
                  {m.bg} \cup {m.rects[i].p : i \in 1..Len(m.rects)})

\* A component of at least 10 pixels whose mean probability is at least
\* box_threshold (percent).
Qualifies(m, contour, d) ==
    /\ Len(contour) >= 10
    /\ ProbSum(m, contour) >= d.box_threshold * Len(contour)

\* score is sum / (100 * n), the mean of n probabilities of sum percent in
\* all, to within 1 / 10000.
IsMean(score, sum, n) ==
    /\ F32Le(F32Quot(100 * sum - n, 10000 * n), score)
    /\ F32Le(score, F32Quot(100 * sum + n, 10000 * n))

\* C6: a connected component of the binarized map produces a box if and
\* only if it has at least 10 pixels and its mean probability is at least
\* box_threshold, and the score of the box is that mean.
C6_BoxIffLargeAndProbable ==
    det.phase = "ok" =>
        LET m == det.tensor.map
            comps == {det.components[k] : k \in 1..Len(det.components)}
        IN  /\ \A i \in 1..Len(det.boxes) :
                  /\ det.from[i] \in comps
                  /\ Qualifies(m, det.from[i], det.d)
                  /\ IsMean(det.scores[i], ProbSum(m, det.from[i]),
                            Len(det.from[i]))
                  /\ \A j \in 1..Len(det.boxes) : det.from[j] = det.from[i] => j = i
            /\ \A c \in comps :
                  Qualifies(m, c, det.d) => \E i \in 1..Len(det.boxes) : det.from[i] = c
            /\ Len(det.scores) = Len(det.boxes)

\* The extent of a component grown by (unclip_ratio - 1) / 2 of its width
\* and height on every side, in the original image's coordinates, clipped
\* to the image.  unclip2 is twice the ratio; lengths in quarter pixels.
GrownExtent(contour, unclip2, nx, ny, size) ==
    LET xs == {contour[k][1] : k \in 1..Len(contour)}
        ys == {contour[k][2] : k \in 1..Len(contour)}
        w  == SetMax(xs) - SetMin(xs)
        h  == SetMax(ys) - SetMin(ys)
        Fit(v, hi) == IF v < 0 THEN 0 ELSE IF v > hi * CoordUnit
                                           THEN hi * CoordUnit ELSE v
        \* the scales are 1 / nx and 1 / ny: dividing by them multiplies
        left   == Fit((SetMin(xs) * CoordUnit - w * (unclip2 - 2)) * nx, size[1])
        right  == Fit((SetMax(xs) * CoordUnit + w * (unclip2 - 2)) * nx, size[1])
        top    == Fit((SetMin(ys) * CoordUnit - h * (unclip2 - 2)) * ny, size[2])
        bottom == Fit((SetMax(ys) * CoordUnit + h * (unclip2 - 2)) * ny, size[2])
    IN  QuadOfQuarters(left, top, right, bottom)

\* C7: the box of a component is its axis-aligned extent grown on every
\* side by (unclip_ratio - 1) / 2 of its width and height (stated at the
\* scales 1 and 1/2, where the division by the scale is exact); on the
\* 100 x 50 map with the rectangle (10,10)-(40,20) at unit scale, ratio
\* 1.0 gives that rectangle and ratio 1.5 gives it grown by 25% on each
\* side: (2.5,7.5)-(47.5,22.5), inside the image.
C7_BoxIsGrownExtent ==
    det.phase = "ok" =>
        /\ \A nx, ny \in {1, 2} :
              (det.scale_x = Ratio(1, nx) /\ det.scale_y = Ratio(1, ny))
              => \A i \in 1..Len(det.boxes) :
                    det.boxes[i] = GrownExtent(det.from[i], det.d.unclip2,
                                               nx, ny, det.orig_size)
        /\ (det.tensor.map = ScenarioMap /\ det.d.unclip2 = 2)
              => det.boxes = <<Quad(10, 10, 40, 20)>>
        /\ (det.tensor.map = ScenarioMap /\ det.d.unclip2 = 3)
              => det.boxes = <<QuadOfQuarters(10, 30, 190, 90)>>

\* The scenario has run under unclip_ratio 1.5.
C7_Witness ==
    /\ det.phase = "ok"
    /\ det.tensor.map = ScenarioMap
    /\ det.d.unclip2 = 3
    /\ det.boxes = <<QuadOfQuarters(10, 30, 190, 90)>>

Overlapping(a, b) == FracLt(<<NmsThreshold, 100>>, IoU(a, b))

Kept(r) == \E i \in 1..Len(nms.keep) : nms.keep[i] = r

\* C8: of two candidates of one type with IoU above nms_threshold, nms
\* keeps the one of higher confidence and not the other.  Stated for calls
\* with exactly these two candidates; nms breaks it.
C8_KeepsHigherConfidence ==
    (/\ nms.phase = "done"
     /\ Len(nms.regions) = 2
     /\ nms.regions[1].region_type = nms.regions[2].region_type
     /\ Overlapping(nms.regions[1], nms.regions[2])
     /\ nms.regions[1].confidence > nms.regions[2].confidence)
    => /\ Kept(nms.regions[1])
       /\ ~ Kept(nms.regions[2])

\* C9: nms removes a candidate only if a kept region of the same type
\* overlaps it with IoU above nms_threshold; two candidates of different
\* types both survive, whatever their IoU and confidences.
C9_NoSuppressionAcrossTypes ==
    nms.phase = "done" =>
        /\ \A k \in 1..Len(nms.regions) :
              Kept(nms.regions[k])
              \/ \E i \in 1..Len(nms.keep) :
                    /\ nms.keep[i].region_type = nms.regions[k].region_type
                    /\ Overlapping(nms.regions[k], nms.keep[i])
        /\ (/\ Len(nms.regions) = 2
            /\ nms.regions[1].region_type # nms.regions[2].region_type)
           => Kept(nms.regions[1]) /\ Kept(nms.regions[2])

\* Two candidates with the same box and different types went through nms.
C9_Witness ==
    /\ nms.phase = "done"
    /\ Len(nms.regions) = 2
    /\ nms.regions[1].region_type # nms.regions[2].region_type
    /\ nms.regions[1].bbox = nms.regions[2].bbox
    /\ nms.regions[1].confidence > nms.regions[2].confidence
    /\ Len(nms.keep) = 2

\* process has been entered and has left step 1.
LeftStepOne == pc \notin {"idle", "user", "start"}

\* C10: without a detector process fails at once with a Detection error:
\* no OcrResult is returned and neither the classifier, the recognizer nor
\* the layout detector is invoked.
C10_NoDetectorFails ==
    (LeftStepOne /\ ~ engine.detector) =>
        /\ pc = "err"
        /\ error = "Detection"
        /\ calls = <<>>
        /\ text_boxes = <<>>
        /\ result = EmptyResult(0, 0) /\ sorts = 0

\* process has failed in an engine that has every other component and
\* detection enabled, and no detector.
C10_Witness ==
    /\ pc = "err"
    /\ ~ engine.detector
    /\ engine.classifier /\ engine.recognizer /\ engine.layout_detector
    /\ engine.config.enable_detection
    /\ error = "Detection"

\* C11: with enable_detection = false process does not fail on account of
\* detection, never calls the detector, and works on exactly one region,
\* the whole image with score 1.0; for every engine, those of
\* create_engine_from_dir and create_engine_from_embedded included.
\* process breaks it in an engine that holds no detector.
C11_DisabledDetectionFallsBack ==
    (LeftStepOne /\ ~ engine.config.enable_detection) =>
        /\ ~ (pc = "err" /\ error = "Detection")
        /\ Count(calls, "detector") = 0
        /\ detection_result =
              [boxes  |-> <<Quad(0, 0, image.width, image.height)>>,
               scores |-> <<F32OfInt(1)>>]

\* The boxes process kept are the detected regions, one for one, with
\* their detection scores.
OneBoxPerRegion ==
    /\ Len(text_boxes) = Len(detection_result.boxes)
    /\ \A i \in 1..Len(text_boxes) :
          /\ text_boxes[i].bbox = detection_result.boxes[i]
          /\ text_boxes[i].detection_score = detection_result.scores[i]

\* The boxes of the result are the kept boxes in some order.
ResultHoldsKeptBoxes ==
    /\ Len(result.boxes) = Len(text_boxes)
    /\ \A i \in 1..Len(text_boxes) :
          Count(result.boxes, text_boxes[i]) = Count(text_boxes, text_boxes[i])

\* C12: with enable_recognition = false process returns one TextBox per
\* detected region whatever recognition_threshold is, each with text "" and
\* the detector's score of its region, and never calls the recognizer.
C12_RecognitionDisabledKeepsAll ==
    (ReturnedOk /\ ~ engine.config.enable_recognition) =>
        /\ OneBoxPerRegion
        /\ ResultHoldsKeptBoxes
        /\ \A i \in 1..Len(result.boxes) : result.boxes[i].text = <<>>
        /\ Count(calls, "recognizer") = 0

\* process returned two boxes from an engine that holds a recognizer, with
\* recognition disabled and a threshold of 0.5.
C12_Witness ==
    /\ ReturnedOk
    /\ engine.recognizer /\ ~ engine.config.enable_recognition
    /\ engine.config.recognition_threshold = F32Quot(1, 2)
    /\ Len(detection_result.boxes) = 2
    /\ Len(result.boxes) = 2

\* The regions whose recognition confidence is at least the threshold, in
\* the order of detection.
RegionsAtOrAbove(threshold) ==
    SelectSeq([i \in 1..Len(rec_scores) |-> i],
              LAMBDA i : F32Le(threshold, rec_scores[i]))

\* C13: with recognition enabled and a recognizer configured, a detected
\* region is a TextBox of the result if and only if its recognition
\* confidence is >= recognition_threshold.
C13_KeptIffAtOrAboveThreshold ==
    (ReturnedOk /\ RecognizerRuns) =>
        LET kept == RegionsAtOrAbove(engine.config.recognition_threshold)
        IN  /\ Len(rec_scores) = Len(detection_result.boxes)
            /\ Len(text_boxes) = Len(kept)
            /\ \A k \in 1..Len(kept) :
                  /\ text_boxes[k].bbox = detection_result.boxes[kept[k]]
                  /\ text_boxes[k].recognition_score = rec_scores[kept[k]]
            /\ ResultHoldsKeptBoxes

\* Of two regions one was recognized with a confidence equal to the
\* threshold and kept, the other below it and dropped.
C13_Witness ==
    /\ ReturnedOk /\ RecognizerRuns
    /\ Len(rec_scores) = 2
    /\ \E i, j \in 1..2 :
          /\ rec_scores[i] = engine.config.recognition_threshold
          /\ F32Lt(rec_scores[j], engine.config.recognition_threshold)
    /\ Len(result.boxes) = 1
    /\ result.boxes[1].recognition_score = engine.config.recognition_threshold

\* C14: whenever a layout detector is configured and process returns Ok,
\* the layout detector has run exactly once in that call and the result
\* carries what it gave, however many regions were detected or kept, none
\* at all included.  process breaks it when detection finds no region.
C14_LayoutRunsOnce ==
    (ReturnedOk /\ engine.layout_detector) =>
        /\ Count(calls, "layout") = 1
        /\ result.layout = layout

\* What process returns from the kept boxes with no layout detector.
WithoutLayout ==
    SortByReadingOrder([boxes |-> text_boxes, text |-> <<>>,
                        processing_time_ms |-> result.processing_time_ms,
                        image_size |-> <<image.width, image.height>>,
                        layout |-> <<>>])

\* C15: a failure of the layout detector never aborts process: no error
\* follows a call of the layout detector, and an Ok result without layout
\* after such a call has the boxes and the text of a call with no layout
\* detector.
C15_LayoutFailureDegrades ==
    /\ pc = "err" => (calls = <<>> \/ calls[Len(calls)] # "layout")
    /\ (ReturnedOk /\ Count(calls, "layout") = 1 /\ result.layout = <<>>) =>
          /\ result.boxes = WithoutLayout.boxes
          /\ result.text = WithoutLayout.text

\* The layout detector failed in a call that kept two boxes, and process
\* returned them.
C15_Witness ==
    /\ ReturnedOk
    /\ Count(calls, "layout") = 1
    /\ result.layout = <<>>
    /\ Len(result.boxes) = 2
    /\ result.text # <<>>

\* C16: a failure of classification or recognition for one region is the
\* result of the whole call: process ends in that error, returns no
\* OcrResult, and goes on to no other region, whatever it had kept.
C16_RegionFailurePropagates ==
    /\ [][(ClassifyFails \/ RecognizeFails) =>
            /\ pc' = "err"
            /\ error' = "Recognition"
            /\ result' = EmptyResult(0, 0)]_vars
    /\ [][pc = "err" => (pc' = "err" /\ result' = result
                         /\ calls' = calls)]_vars

\* The second region failed after the first had been kept.
C16_Witness ==
    /\ pc = "err"
    /\ error = "Recognition"
    /\ region = 2
    /\ Len(text_boxes) = 1
    /\ result = EmptyResult(0, 0)

\* C17: a cropped region is rotated by 180 degrees only when the
\* classifier's angle is 180 and its confidence exceeds the classifier's
\* threshold.  auto_rotate obeys it; the rotation step of process breaks it.
C17_RotatesOnlyAboveThreshold ==
    \A i \in 1..Len(cropped) :
        cropped[i].rotated => NeedsRotation(cropped[i])

\* The call returned Ok(TableStructure), whether or not the caller has
\* asked for the grid since.
TableReturned == tab.phase \in {"ok", "grid"}

\* C18: every cell of a TableStructure that decode_tokens produced lies
\* inside the table: row + row_span <= num_rows and
\* col + col_span <= num_cols.
C18_CellsInsideTable ==
    TableReturned =>
        \A k \in 1..Len(tab.cells) :
            /\ tab.cells[k].row + tab.cells[k].row_span <= tab.num_rows
            /\ tab.cells[k].col + tab.cells[k].col_span <= tab.num_cols

\* C19: as_grid marks every position of the grid that a cell covers as
\* referencing that cell.
C19_GridReferencesCoveringCell ==
    tab.phase = "grid" =>
        \A k \in 1..Len(tab.cells) : \A p \in DOMAIN tab.grid :
            CoversInGrid(tab.cells[k], p[1], p[2],
                         tab.num_rows, tab.num_cols)
            => tab.grid[p] = k

\* The detection model answered with something else than the Float32
\* probability map [1, 1, H, W].
UnexpectedDetOutput ==
    det.tensor.dtype # "Float32" \/ det.tensor.rank # 4

\* C20: an output tensor of unexpected dtype or shape ends the consuming
\* call (here TextDetector::detect) with a Detection or Recognition
\* error: it neither panics nor returns Ok.
C20_UnexpectedTensorIsAnError ==
    (det.phase \in {"ok", "err", "panic"} /\ UnexpectedDetOutput)
    => /\ det.phase = "err"
       /\ det.error \in {"Detection", "Recognition"}

\* C21: for every image and quad, the rectangle crop_text_region crops
\* has width >= 1 and height >= 1 and lies inside the image.
C21_CropInsideImage ==
    (prep.phase = "done" /\ prep.op = "crop")
    => /\ prep.rect.width >= 1 /\ prep.rect.height >= 1
       /\ prep.rect.x + prep.rect.width <= prep.width
       /\ prep.rect.y + prep.rect.height <= prep.height

\* C24: calculate_resize_dimensions returns (w, h) unchanged when
\* max(w, h) <= target; otherwise the longer side of what it returns is
\* target exactly, the shorter side is at most target, both are >= 1.
C24_ResizeHitsTarget ==
    (prep.phase = "done" /\ prep.op = "resize")
    => IF Max(prep.width, prep.height) <= prep.target_size
       THEN prep.dims = <<prep.width, prep.height>>
       ELSE /\ Max(prep.dims[1], prep.dims[2]) = prep.target_size
            /\ Min(prep.dims[1], prep.dims[2]) <= prep.target_size
            /\ prep.dims[1] >= 1 /\ prep.dims[2] >= 1

\* detect was called with the output it expects: a Float32 tensor
\* [1, 1, H, W].
DetectedOnMap ==
    /\ det.phase \in {"ok", "err", "panic"}
    /\ det.tensor.dtype = "Float32" /\ det.tensor.rank = 4

\* A component that passes the size filter and the score filter.
Survives(m, contour, d) ==
    /\ Len(contour) >= MinComponent
    /\ PassesBoxThreshold(AvgScore(m, contour), d)

\* No component of the map survives the two filters.
NoSurvivor ==
    \A k \in 1..Len(det.components) :
        ~ Survives(det.tensor.map, det.components[k], det.d)

\* The step of process in which detect returns a DetectionResult without
\* boxes ends the call with Ok(OcrResult::empty).
EmptyDetectionIsOk ==
    (DetectRegions /\ detection_result'.boxes = <<>>)
    => /\ pc' = "ok"
       /\ error' = None
       /\ result'.boxes = <<>> /\ result'.text = <<>>

\* C22: when no connected component of the probability map survives,
\* detect returns Ok with empty boxes and scores, and process returns Ok
\* with a result of no boxes and empty text; neither reports an error.
C22_NoComponentsIsEmptyOk ==
    /\ [](DetectedOnMap =>
            /\ det.phase = "ok"
            /\ NoSurvivor => (det.boxes = <<>> /\ det.scores = <<>>))
    /\ [][EmptyDetectionIsOk]_vars

\* process came back with the empty result of a detection without boxes.
C22_Witness ==
    /\ pc = "ok"
    /\ engine.detector /\ engine.config.enable_detection
    /\ calls = <<"detector">>
    /\ detection_result.boxes = <<>>
    /\ result = EmptyResult(image.width, image.height)

RECURSIVE Repeat(_, _)
Repeat(seq, n) == IF n <= 0 THEN <<>> ELSE seq \o Repeat(seq, n - 1)

Only(cond, who) == IF cond THEN <<who>> ELSE <<>>

\* The backend invocations of a call of process that is about to start on
\* region r: the detector if it is in use, then the classifier and the
\* recognizer, those in use, for each region before r.
CallsBefore(r) ==
    Only(engine.detector /\ engine.config.enable_detection, "detector")
    \o Repeat(Only(ClassifierRuns, "classifier")
              \o Only(RecognizerRuns, "recognizer"), r - 1)

\* C25: within one call of process the backends are invoked one after the
\* other in a fixed order: the detector once, then for each region in
\* detection order the classifier (if in use) and the recognizer (if in
\* use), then the layout detector at most once; a failed invocation is
\* the last one (no retry).
C25_BackendsInFixedOrder ==
    LET n == Len(detection_result.boxes)
    IN  /\ pc = "classify" => calls = CallsBefore(region)
        /\ pc = "recognize" =>
              calls = CallsBefore(region) \o Only(ClassifierRuns, "classifier")
        /\ pc = "layout" => calls = CallsBefore(n + 1)
        /\ pc = "ok" =>
              calls = IF n = 0 THEN CallsBefore(1)
                      ELSE CallsBefore(n + 1)
                           \o Only(engine.layout_detector, "layout")
        /\ pc = "err" =>
              \/ calls = <<>> /\ ~ engine.detector
              \/ calls = <<"detector">> /\ region = 0
              \/ calls = CallsBefore(region) \o <<"classifier">>
              \/ calls = CallsBefore(region)
                         \o Only(ClassifierRuns, "classifier")
                         \o <<"recognizer">>
        /\ Count(calls, "detector") <= 1 /\ Count(calls, "layout") <= 1

\* process returned after the detector, the classifier and the recognizer
\* on each of two regions, and the layout detector.
C25_Witness ==
    /\ pc = "ok"
    /\ calls = <<"detector", "classifier", "recognizer",
                 "classifier", "recognizer", "layout">>

\* The tokens of the table call up to the first end-of-sequence token.
LiveTokens ==
    LET toks == StructureTokens(tab.structure)
        ends == {i \in 1..Len(toks) : toks[i] = TokEos}
    IN  IF ends = {} THEN toks ELSE SubSeq(toks, 1, SetMin(ends) - 1)

\* Token i closes a cell that is open: a cell-open comes before it with no
\* cell-close in between.
ClosesOpenCell(toks, i) ==
    /\ toks[i] = TokTdEnd
    /\ \E j \in 1..(i - 1) :
          /\ toks[j] = TokTd
          /\ \A m \in (j + 1)..(i - 1) : toks[m] # TokTdEnd

Closes(toks) == {i \in 1..Len(toks) : ClosesOpenCell(toks, i)}

\* The position of the cell-close of the k-th cell, k from 1.
CloseOf(toks, k) ==
    CHOOSE i \in Closes(toks) :
        Cardinality({j \in Closes(toks) : j < i}) = k - 1

\* The position of the last row-open before token i, 0 if there is none.
RowOpenBefore(toks, i) ==
    SetMax({0} \cup {j \in 1..(i - 1) : toks[j] = TokTr})

\* C26: the k-th emitted cell (k from 0) takes its bbox from entry k of
\* the bbox tensor; its row is the number of row-closes before it; its col
\* is the sum of the col_spans of the cells emitted since the last
\* row-open; cells are emitted exactly by the cell-closes that follow a
\* cell-open; no token after the first end-of-sequence token affects the
\* cells, num_rows or num_cols.
C26_CursorFollowsTokens ==
    TableReturned =>
        LET toks == LiveTokens
            bd   == BboxData(tab.bboxes)
            live == DecodeTokens(toks, tab.bboxes, tab.scale_x, tab.scale_y)
        IN  /\ Len(tab.cells) = Cardinality(Closes(toks))
            /\ \A k \in 1..Len(tab.cells) :
                  LET at == CloseOf(toks, k)
                      open == RowOpenBefore(toks, at)
                      cell == tab.cells[k]
                  IN  /\ cell.row = Cardinality({j \in 1..(at - 1) :
                                                    toks[j] = TokTrEnd})
                      /\ cell.col =
                            SumOver([j \in 1..(k - 1) |->
                                        IF CloseOf(toks, j) > open
                                        THEN tab.cells[j].col_span ELSE 0],
                                    k - 1)
                      /\ (bd # <<>> /\ HasBboxRow(bd[1], k - 1)) =>
                            \A c \in 1..4 :
                               LET scale == IF c % 2 = 1 THEN tab.scale_x
                                            ELSE tab.scale_y
                               IN  cell.bbox[c][1] * scale[1] =
                                      bd[1].rows[k][c] * scale[2]
                                      * cell.bbox[c][2]
            /\ tab.cells = live.cells
            /\ tab.num_rows = live.num_rows
            /\ tab.num_cols = live.num_cols

\* Two cells of one row took the two entries of the bbox tensor, divided
\* by the scales 1/2 and 1/1, and the cell after the end of the sequence
\* was not emitted.
C26_Witness ==
    /\ tab.phase = "ok"
    /\ StructureTokens(tab.structure) = BoxedStream
    /\ tab.scale_y = <<1, 1>>
    /\ Len(tab.cells) = 2
    /\ tab.cells[2].row = 0 /\ tab.cells[2].col = 1
    /\ tab.cells[2].bbox = <<(<<20, 1>>), (<<12, 1>>), (<<28, 1>>), (<<16, 1>>)>>
    /\ tab.num_rows = 1 /\ tab.num_cols = 2

\* A token between a cell's open and its close sets a span.
SpanTokenInside(toks, at) ==
    LET open == SetMax({j \in 1..(at - 1) : toks[j] = TokTd})
    IN  \E m \in (open + 1)..(at - 1) :
           toks[m] >= ColspanBase /\ toks[m] < SpanTokensEnd

\* C27: every emitted cell has 1 <= row_span <= 10 and 1 <= col_span <= 10,
\* and a cell with no span token between its cell-open and its cell-close
\* is 1 x 1: a span set for an earlier cell does not leak into a later one.
C27_SpansClampedAndReset ==
    TableReturned =>
        \A k \in 1..Len(tab.cells) :
            /\ 1 <= tab.cells[k].row_span /\ tab.cells[k].row_span <= MaxSpan
            /\ 1 <= tab.cells[k].col_span /\ tab.cells[k].col_span <= MaxSpan
            /\ ~ SpanTokenInside(LiveTokens, CloseOf(LiveTokens, k)) =>
                  (tab.cells[k].row_span = 1 /\ tab.cells[k].col_span = 1)

\* A cell of 10 x 10 from span tokens asking for 11 x 11, followed by a
\* cell without span tokens, which is 1 x 1.
C27_Witness ==
    /\ tab.phase = "ok"
    /\ StructureTokens(tab.structure) = <<5, 3, 18, 31, 4, 3, 4, 6>>
    /\ Len(tab.cells) = 2
    /\ tab.cells[1].col_span = 10 /\ tab.cells[1].row_span = 10
    /\ tab.cells[2].col_span = 1 /\ tab.cells[2].row_span = 1
    /\ tab.cells[2].col = 10

\* Two pixels next to each other in a row or a column.
Adjacent4(p, q) ==
    \/ p[1] = q[1] /\ (p[2] = q[2] + 1 \/ q[2] = p[2] + 1)
    \/ p[2] = q[2] /\ (p[1] = q[1] + 1 \/ q[1] = p[1] + 1)

\* Two pixels that touch at a corner only.
Diagonal(p, q) ==
    /\ (p[1] = q[1] + 1 \/ q[1] = p[1] + 1)
    /\ (p[2] = q[2] + 1 \/ q[2] = p[2] + 1)

\* The mask pixels a path of adjacent mask pixels joins to one of S.
RECURSIVE Joined(_, _)
Joined(S, binary) ==
    LET T == S \cup {q \in binary : \E p \in S : Adjacent4(p, q)}
    IN  IF T = S THEN S ELSE Joined(T, binary)

PixelsOf(contour) == {contour[i] : i \in 1..Len(contour)}

\* C28: find_contours terminates, and before the size filter its flood
\* fill partitions the pixels above the threshold into maximal 4-connected
\* components: every such pixel is in exactly one component, two pixels
\* are in one component iff a path of horizontally or vertically adjacent
\* mask pixels joins them, and pixels touching only diagonally are not
\* joined.
C28_FloodFillPartitions ==
    det.phase = "ok" =>
        LET binary == Binarize(det.tensor.map, det.d.threshold)
            comps  == det.components
            width  == det.tensor.map.width
            height == det.tensor.map.height
        IN  /\ \A p \in binary :
                  /\ Cardinality({k \in 1..Len(comps) :
                                     p \in PixelsOf(comps[k])}) = 1
                  /\ FloodFill(binary, {}, p[1], p[2], width, height).stack
                        = <<>>
            /\ \A k \in 1..Len(comps) :
                  /\ comps[k] # <<>>
                  /\ Len(comps[k]) = Cardinality(PixelsOf(comps[k]))
                  /\ PixelsOf(comps[k]) = Joined({comps[k][1]}, binary)

\* Two components were found that touch at a corner.
C28_Witness ==
    /\ det.phase = "ok"
    /\ \E i \in 1..Len(det.components) : \E j \in 1..Len(det.components) :
          /\ i # j
          /\ \E p \in PixelsOf(det.components[i]) :
                \E q \in PixelsOf(det.components[j]) : Diagonal(p, q)
          /\ Len(det.components[i]) >= 2

\* C29: the output of nms is a sub-collection of its input (no region
\* added, duplicated or altered) in which no two regions of the same
\* LayoutType have IoU greater than nms_threshold.
C29_NmsOutputIsSparseSubset ==
    nms.phase = "done" =>
        /\ \A i \in 1..Len(nms.keep) :
              Count(nms.keep, nms.keep[i]) <= Count(nms.regions, nms.keep[i])
        /\ \A i \in 1..Len(nms.keep) : \A j \in 1..Len(nms.keep) :
              (i # j /\ nms.keep[i].region_type = nms.keep[j].region_type)
              => ~ Overlapping(nms.keep[i], nms.keep[j])

\* Of three candidates of one type, the middle one overlapping both
\* others, two were kept.
C29_Witness ==
    /\ nms.phase = "done"
    /\ Len(nms.regions) = 3
    /\ \A k \in 1..3 : nms.regions[k].region_type = "Text"
    /\ Overlapping(nms.regions[1], nms.regions[2])
    /\ Overlapping(nms.regions[2], nms.regions[3])
    /\ ~ Overlapping(nms.regions[1], nms.regions[3])
    /\ Len(nms.keep) = 2

\* Recognition is enabled and the engine holds no recognizer.
RecognizerMissing == engine.config.enable_recognition /\ ~ engine.recognizer

\* C30: with enable_recognition true and no recognizer configured,
\* process gives every region empty text and recognition score 0.0 and
\* still applies the threshold: a region is kept iff
\* recognition_threshold <= 0.0, so with a positive threshold the result
\* has no boxes.
C30_MissingRecognizerScoresZero ==
    (RecognizerMissing /\ pc \notin {"idle", "user"}) =>
        LET n == Len(detection_result.boxes)
            kept == F32Le(engine.config.recognition_threshold, F32OfInt(0))
        IN  /\ Count(calls, "recognizer") = 0
            /\ \A i \in 1..Len(rec_scores) : rec_scores[i] = F32OfInt(0)
            /\ \A i \in 1..Len(text_boxes) :
                  /\ text_boxes[i].text = <<>>
                  /\ text_boxes[i].recognition_score = F32OfInt(0)
            /\ Len(text_boxes) = IF kept THEN Len(rec_scores) ELSE 0
            /\ pc = "layout" => Len(rec_scores) = n
            /\ (pc = "ok" /\ n > 0) =>
                  /\ Len(rec_scores) = n
                  /\ Len(result.boxes) = IF kept THEN n ELSE 0
                  /\ \A i \in 1..Len(result.boxes) :
                        result.boxes[i].text = <<>>

\* process returned no boxes for two detected regions: recognition was
\* enabled with a threshold above 0 and there was no recognizer.
C30_Witness ==
    /\ RecognizerMissing
    /\ pc = "ok"
    /\ F32Lt(F32OfInt(0), engine.config.recognition_threshold)
    /\ Len(detection_result.boxes) = 2
    /\ rec_scores = <<F32OfInt(0), F32OfInt(0)>>
    /\ result.boxes = <<>>

====
